---- MODULE Spec2Model ----
(***************************************************************************)
(* The five streaming extractors of src/wasm/src/lib.rs (worksheet,        *)
(* shared strings, styles, workbook, relationships) as state machines      *)
(* over the event stream of the XML tokenizer (quick_xml::Reader).  One    *)
(* loop iteration of an extractor is one action; the tokenizer is the      *)
(* environment and offers the next event.                                  *)
(***************************************************************************)
EXTENDS Naturals, Integers, Sequences, FiniteSets, TLC

VARIABLES
    extractor,  \* which *_impl function is running
    family,     \* the family of documents the tokenizer reads from
    pc,         \* "scan" while in the loop, "done" after the break and return
    trace,      \* the events read_event_into has returned so far (history)
    open,       \* the tokenizer's stack of open element names
    ws,         \* locals of parse_worksheet_impl
    sst,        \* locals of parse_shared_strings_impl
    sty,        \* locals of parse_styles_impl
    wb,         \* locals of parse_workbook_impl
    rels,       \* locals of parse_relationships_impl
    peer        \* a second invocation: its extractor, position and locals

vars == <<extractor, family, pc, trace, open, ws, sst, sty, wb, rels, peer>>

(***************************************************************************)
(* Bounds of the model.                                                    *)
(***************************************************************************)
\* Events of one worksheet, workbook or relationships document before its
\* Eof or tokenizer error.
MaxEvents == 5
\* The same for a shared-strings document.
MaxSstEvents == 8
\* Events read of a document of the family "any".
MaxAnyEvents == 3
\* Events read by each of two invocations that run together.
MaxPairEvents == 2
\* Events of a worksheet of the family "ws_vals".
MaxValEvents == 4
\* Events of a worksheet of the family "ws_cell".
MaxCellEvents == 7
\* Events of a styles.xml of the families "sty_xfs", "sty_regions" and
\* "sty_numfmts".
MaxXfEvents == 4
\* Events of a styles.xml of the families "sty_recs", "sty_fills" and
\* "sty_borders", of a shared-strings document of the family "sst_empty"
\* and of the documents of the families "ws_app", "wb_app" and "rels_app".
MaxRecEvents == 6

(***************************************************************************)
(* Option<T>: None is the empty sequence, Some(v) the one-element one.     *)
(***************************************************************************)
None == <<>>
Some(v) == <<v>>
IsSome(o) == o # <<>>
UnwrapOr(o, d) == IF o = <<>> THEN d ELSE o[1]

(***************************************************************************)
(* Events.  A qualified name is <<prefix, local>>, prefix "" when the      *)
(* name is written without one.  An attribute is [key, value].             *)
(***************************************************************************)
QN(local) == <<"", local>>
PQN(prefix, local) == <<prefix, local>>
Attr(k, v) == [key |-> k, value |-> v]

Start(n, a) == [type |-> "Start", name |-> n, attrs |-> a, text |-> ""]
Empty(n, a) == [type |-> "Empty", name |-> n, attrs |-> a, text |-> ""]
End(n) == [type |-> "End", name |-> n, attrs |-> <<>>, text |-> ""]
Text(t) == [type |-> "Text", name |-> QN(""), attrs |-> <<>>, text |-> t]
\* Comment, CData, Decl, PI, DocType: the `_ => {}` arm of every loop.
Decl == [type |-> "Decl", name |-> QN(""), attrs |-> <<>>, text |-> ""]
Comment == [type |-> "Comment", name |-> QN(""), attrs |-> <<>>, text |-> ""]
Eof == [type |-> "Eof", name |-> QN(""), attrs |-> <<>>, text |-> ""]
\* read_event_into returned Err(_).
TokErr == [type |-> "Err", name |-> QN(""), attrs |-> <<>>, text |-> ""]
\* The Err read_event_into returns on a close tag n that closes no open
\* element (quick_xml checks end names).
UnmatchedEnd(n) == [type |-> "Err", name |-> n, attrs |-> <<>>, text |-> ""]

\* BytesStart::local_name / BytesEnd::local_name: the name after its prefix.
local_name(e) == e.name[2]
\* Event e opens an element of local name n (open tag or self-closing tag).
IsOpen(e, n) == e.type \in {"Start", "Empty"} /\ local_name(e) = n
\* attr.key.as_ref(): the attribute's name as written, prefix included.
AttrKeyLocalOnly(attr) == QN(attr.key[2])
AttrKey(attr) == attr.key

\* str::parse::<u32>() on the attribute values the documents use.
ParseU32(s) ==
    CASE s = "0" -> Some(0)
      [] s = "1" -> Some(1)
      [] s = "2" -> Some(2)
      [] s = "3" -> Some(3)
      [] s = "+2" -> Some(2)
      [] OTHER -> None      \* "", "x", "-1", "1.5", ...

\* str::parse::<f64>(); a float is modelled by its number of tenths.
ParseF64(s) ==
    CASE s = "0" -> Some(0)
      [] s = "1" -> Some(10)
      [] s = "2" -> Some(20)
      [] s = "3" -> Some(30)
      [] s = "+2" -> Some(20)
      [] s = "1.5" -> Some(15)
      [] s = "15" -> Some(150)
      [] OTHER -> None      \* "", "x", ...

\* val == "1" || val == "true"
IsTruthy(s) == s = "1" \/ s = "true"

\* BytesText::unescape: Err on an unknown entity reference.
Unescape(raw) ==
    CASE raw = "&amp;" -> Some("&")
      [] raw = "&bogus;" -> None
      [] OTHER -> Some(raw)

(***************************************************************************)
(* parse_worksheet_impl                                                    *)
(***************************************************************************)
WsInit ==
    [rows |-> <<>>, merge_cells |-> <<>>, hyperlinks |-> <<>>,
     col_widths |-> <<>>,
     current_row |-> None, current_cell |-> None,
     in_value |-> FALSE, in_formula |-> FALSE, in_inline_str |-> FALSE,
     text_content |-> ""]

NewRow == [row_num |-> 0, cells |-> <<>>, height |-> None, hidden |-> FALSE]

RowAttr(row, attr) ==
    CASE AttrKey(attr) = QN("r") ->
            [row EXCEPT !.row_num = UnwrapOr(ParseU32(attr.value), 0)]
      [] AttrKey(attr) = QN("ht") ->
            [row EXCEPT !.height = ParseF64(attr.value)]
      [] AttrKey(attr) = QN("hidden") ->
            [row EXCEPT !.hidden = IsTruthy(attr.value)]
      [] OTHER -> row

NewCell ==
    [reference |-> "", cell_type |-> None, style_index |-> None,
     value |-> None, formula |-> None]

CellAttr(cell, attr) ==
    CASE AttrKey(attr) = QN("r") -> [cell EXCEPT !.reference = attr.value]
      [] AttrKey(attr) = QN("t") -> [cell EXCEPT !.cell_type = Some(attr.value)]
      [] AttrKey(attr) = QN("s") ->
            [cell EXCEPT !.style_index = ParseU32(attr.value)]
      [] OTHER -> cell

ColAttr(c, attr) ==
    CASE AttrKey(attr) = QN("min") -> [c EXCEPT !.min = ParseU32(attr.value)]
      [] AttrKey(attr) = QN("max") -> [c EXCEPT !.max = ParseU32(attr.value)]
      [] AttrKey(attr) = QN("width") ->
            [c EXCEPT !.width = ParseF64(attr.value)]
      [] OTHER -> c

MergeAttr(merge_cells, attr) ==
    IF AttrKey(attr) = QN("ref") THEN Append(merge_cells, attr.value)
    ELSE merge_cells

NewHyperlink ==
    [reference |-> "", rid |-> None, location |-> None, display |-> None,
     tooltip |-> None]

IsRidKeyPrefixedOnly(key) == key[2] = "id" /\ key[1] # ""
\* key.ends_with(":id") || key == "id"
IsRidKey(key) == key[2] = "id"

HyperlinkAttr(h, attr) ==
    CASE AttrKey(attr) = QN("ref") -> [h EXCEPT !.reference = attr.value]
      [] AttrKey(attr) = QN("location") ->
            [h EXCEPT !.location = Some(attr.value)]
      [] AttrKey(attr) = QN("display") ->
            [h EXCEPT !.display = Some(attr.value)]
      [] AttrKey(attr) = QN("tooltip") ->
            [h EXCEPT !.tooltip = Some(attr.value)]
      [] OTHER ->
            IF IsRidKey(attr.key) THEN [h EXCEPT !.rid = Some(attr.value)]
            ELSE h

NewSheetInfo == [name |-> "", sheet_id |-> 0, rid |-> "", state |-> None]

SheetAttr(sheet, attr) ==
    CASE AttrKey(attr) = QN("name") -> [sheet EXCEPT !.name = attr.value]
      [] AttrKey(attr) = QN("sheetId") ->
            [sheet EXCEPT !.sheet_id = UnwrapOr(ParseU32(attr.value), 0)]
      [] AttrKey(attr) = QN("state") ->
            [sheet EXCEPT !.state = Some(attr.value)]
      [] OTHER ->
            IF IsRidKey(attr.key) THEN [sheet EXCEPT !.rid = attr.value]
            ELSE sheet

NewRelationship ==
    [id |-> "", rel_type |-> "", target |-> "", target_mode |-> None]

RelAttr(rel, attr) ==
    CASE AttrKey(attr) = QN("Id") -> [rel EXCEPT !.id = attr.value]
      [] AttrKey(attr) = QN("Type") -> [rel EXCEPT !.rel_type = attr.value]
      [] AttrKey(attr) = QN("Target") -> [rel EXCEPT !.target = attr.value]
      [] AttrKey(attr) = QN("TargetMode") ->
            [rel EXCEPT !.target_mode = Some(attr.value)]
      [] OTHER -> rel

\* for attr in e.attributes().flatten() { match attr.key.as_ref() { .. } }
\* with the match of the element `el`.
ApplyAttr(el, acc, attr) ==
    CASE el = "row" -> RowAttr(acc, attr)
      [] el = "c" -> CellAttr(acc, attr)
      [] el = "col" -> ColAttr(acc, attr)
      [] el = "mergeCell" -> MergeAttr(acc, attr)
      [] el = "hyperlink" -> HyperlinkAttr(acc, attr)
      [] el = "sheet" -> SheetAttr(acc, attr)
      [] el = "Relationship" -> RelAttr(acc, attr)

RECURSIVE ForAttrs(_, _, _)
ForAttrs(el, acc, attrs) ==
    IF attrs = <<>> THEN acc
    ELSE ForAttrs(el, ApplyAttr(el, acc, Head(attrs)), Tail(attrs))

\* for col in min_col..=max_col { col_widths.insert(col, w) }
InsertRangeExclusive(m, lo, hi, w) ==
    [k \in DOMAIN m \cup {j \in lo..hi : j < hi} |->
        IF k \in lo..hi THEN w ELSE m[k]]
InsertRange(m, lo, hi, w) ==
    [k \in DOMAIN m \cup (lo..hi) |-> IF k \in lo..hi THEN w ELSE m[k]]

ColElement(w, e) ==
    LET c == ForAttrs("col", [min |-> None, max |-> None, width |-> None],
                  e.attrs)
    IN  IF IsSome(c.min) /\ IsSome(c.max) /\ IsSome(c.width)
        THEN [w EXCEPT !.col_widths =
                 InsertRange(@, c.min[1], c.max[1], c.width[1])]
        ELSE w

HyperlinkElement(w, e) ==
    LET h == ForAttrs("hyperlink", NewHyperlink, e.attrs)
    IN  IF h.reference # "" THEN [w EXCEPT !.hyperlinks = Append(@, h)]
        ELSE w

\* The Ok(Event::Start(e)) | Ok(Event::Empty(e)) arm.
WsOnOpenCode(w, e) ==
    LET n == local_name(e)
    IN  CASE n = "row" ->
                [w EXCEPT !.current_row = Some(ForAttrs("row", NewRow, e.attrs))]
          [] n = "c" ->
                [w EXCEPT !.current_cell =
                    Some(ForAttrs("c", NewCell, e.attrs))]
          [] n = "v" -> [w EXCEPT !.in_value = TRUE, !.text_content = ""]
          [] n = "f" -> [w EXCEPT !.in_formula = TRUE, !.text_content = ""]
          [] n = "is" ->
                [w EXCEPT !.in_inline_str = TRUE, !.text_content = ""]
          [] n = "t" /\ w.in_inline_str -> w
          [] n = "col" -> ColElement(w, e)
          [] n = "mergeCell" ->
                [w EXCEPT !.merge_cells = ForAttrs("mergeCell", @, e.attrs)]
          [] n = "hyperlink" -> HyperlinkElement(w, e)
          [] OTHER -> w

\* A Start|Empty arm in which a t element clears the buffer.
WsOnOpenTClears(w, e) ==
    IF local_name(e) = "t" THEN [w EXCEPT !.text_content = ""]
    ELSE WsOnOpenCode(w, e)

WsOnOpen(w, e) == WsOnOpenCode(w, e)

\* The Ok(Event::End(e)) arm.
WsOnEndCode(w, e) ==
    LET n == local_name(e)
    IN  CASE n = "row" ->
                IF IsSome(w.current_row)
                THEN [w EXCEPT !.rows = Append(@, w.current_row[1]),
                               !.current_row = None]
                ELSE w
          [] n = "c" ->
                IF IsSome(w.current_cell)
                THEN IF IsSome(w.current_row)
                     THEN [w EXCEPT
                            !.current_row =
                                Some([w.current_row[1] EXCEPT
                                    !.cells = Append(@, w.current_cell[1])]),
                            !.current_cell = None]
                     ELSE [w EXCEPT !.current_cell = None]
                ELSE w
          [] n = "v" ->
                IF IsSome(w.current_cell)
                THEN [w EXCEPT
                        !.in_value = FALSE,
                        !.current_cell =
                            Some([w.current_cell[1] EXCEPT
                                !.value = Some(w.text_content)])]
                ELSE [w EXCEPT !.in_value = FALSE]
          [] n = "f" ->
                IF IsSome(w.current_cell) /\ w.text_content # ""
                THEN [w EXCEPT
                        !.in_formula = FALSE,
                        !.current_cell =
                            Some([w.current_cell[1] EXCEPT
                                !.formula = Some(w.text_content)])]
                ELSE [w EXCEPT !.in_formula = FALSE]
          [] n = "is" ->
                IF IsSome(w.current_cell)
                THEN [w EXCEPT
                        !.in_inline_str = FALSE,
                        !.current_cell =
                            Some([w.current_cell[1] EXCEPT
                                !.value = Some(w.text_content)])]
                ELSE [w EXCEPT !.in_inline_str = FALSE]
          [] OTHER -> w

WsOnEndDropsUnnumberedRow(w, e) ==
    IF local_name(e) = "row" /\ IsSome(w.current_row)
       /\ w.current_row[1].row_num = 0
    THEN [w EXCEPT !.current_row = None]
    ELSE WsOnEndCode(w, e)

\* An End arm that, at the close of a row with the number of the row
\* pushed last, replaces that row instead of pushing a second one.
WsOnEndReplacesLastRow(w, e) ==
    IF /\ local_name(e) = "row" /\ IsSome(w.current_row) /\ w.rows # <<>>
       /\ w.rows[Len(w.rows)].row_num = w.current_row[1].row_num
    THEN [w EXCEPT !.rows[Len(w.rows)] = w.current_row[1],
                   !.current_row = None]
    ELSE WsOnEndCode(w, e)

\* An End arm that leaves a cell closed outside any row in its builder.
WsOnEndKeepsOrphanCell(w, e) ==
    IF local_name(e) = "c" /\ ~IsSome(w.current_row) THEN w
    ELSE WsOnEndCode(w, e)

\* An End arm that sets the formula of the cell at every f close, even to
\* the empty string.
WsOnEndFormulaAlways(w, e) ==
    IF local_name(e) = "f" /\ IsSome(w.current_cell)
    THEN [w EXCEPT !.in_formula = FALSE,
                   !.current_cell = Some([w.current_cell[1] EXCEPT
                                             !.formula = Some(w.text_content)])]
    ELSE WsOnEndCode(w, e)

WsOnEnd(w, e) == WsOnEndCode(w, e)

\* The Ok(Event::Text(e)) arm.
WsOnText(w, e) ==
    IF (w.in_value \/ w.in_formula \/ w.in_inline_str)
       /\ IsSome(Unescape(e.text))
    THEN [w EXCEPT !.text_content = @ \o Unescape(e.text)[1]]
    ELSE w

(***************************************************************************)
(* parse_shared_strings_impl                                               *)
(***************************************************************************)
SstInit ==
    [strings |-> <<>>, in_si |-> FALSE, in_t |-> FALSE, current_string |-> ""]

\* The Ok(Event::Start(e)) arm; Event::Empty is not matched by it.
SstOnStart(s, e) ==
    LET n == local_name(e)
    IN  CASE n = "si" -> [s EXCEPT !.in_si = TRUE, !.current_string = ""]
          [] n = "t" /\ s.in_si -> [s EXCEPT !.in_t = TRUE]
          [] OTHER -> s

\* The Ok(Event::End(e)) arm.
SstOnEnd(s, e) ==
    LET n == local_name(e)
    IN  CASE n = "si" ->
                [s EXCEPT !.in_si = FALSE,
                          !.strings = Append(@, s.current_string)]
          [] n = "t" -> [s EXCEPT !.in_t = FALSE]
          [] OTHER -> s

SstOnTextAnywhereInSi(s, e) ==
    IF s.in_si /\ IsSome(Unescape(e.text))
    THEN [s EXCEPT !.current_string = @ \o Unescape(e.text)[1]]
    ELSE s

\* The Ok(Event::Text(e)) arm.
SstOnText(s, e) ==
    IF s.in_t /\ IsSome(Unescape(e.text))
    THEN [s EXCEPT !.current_string = @ \o Unescape(e.text)[1]]
    ELSE s

(***************************************************************************)
(* parse_styles_impl                                                       *)
(***************************************************************************)
\* str::parse::<i32>()
ParseI32(s) ==
    CASE s = "-1" -> Some(0 - 1)
      [] s = "90" -> Some(90)
      [] OTHER -> ParseU32(s)

StyInit ==
    [cell_xfs |-> <<>>, fonts |-> <<>>, fills |-> <<>>, borders |-> <<>>,
     num_fmts |-> <<>>,
     in_cell_xfs |-> FALSE, in_fonts |-> FALSE, in_fills |-> FALSE,
     in_borders |-> FALSE, in_num_fmts |-> FALSE,
     current_font |-> None, current_fill |-> None, current_border |-> None,
     in_pattern_fill |-> FALSE, current_border_side |-> None]

\* ParsedStyle::default()
NewStyle ==
    [num_fmt_id |-> None, font_id |-> None, fill_id |-> None,
     border_id |-> None, xf_id |-> None,
     apply_number_format |-> FALSE, apply_font |-> FALSE,
     apply_fill |-> FALSE, apply_border |-> FALSE, apply_alignment |-> FALSE,
     horizontal |-> None, vertical |-> None, wrap_text |-> FALSE,
     text_rotation |-> None, indent |-> None]

\* ParsedFont::default(), ParsedFill::default(), ParsedBorder::default()
NewFont ==
    [bold |-> FALSE, italic |-> FALSE, underline |-> FALSE,
     strikethrough |-> FALSE, size |-> None, color |-> None, name |-> None]
NewFill == [pattern_type |-> None, fg_color |-> None, bg_color |-> None]
NewBorder ==
    [left_style |-> None, left_color |-> None,
     right_style |-> None, right_color |-> None,
     top_style |-> None, top_color |-> None,
     bottom_style |-> None, bottom_color |-> None]

XfAttr(style, attr) ==
    CASE AttrKey(attr) = QN("numFmtId") ->
            [style EXCEPT !.num_fmt_id = ParseU32(attr.value)]
      [] AttrKey(attr) = QN("fontId") ->
            [style EXCEPT !.font_id = ParseU32(attr.value)]
      [] AttrKey(attr) = QN("fillId") ->
            [style EXCEPT !.fill_id = ParseU32(attr.value)]
      [] AttrKey(attr) = QN("borderId") ->
            [style EXCEPT !.border_id = ParseU32(attr.value)]
      [] AttrKey(attr) = QN("xfId") ->
            [style EXCEPT !.xf_id = ParseU32(attr.value)]
      [] AttrKey(attr) = QN("applyNumberFormat") ->
            [style EXCEPT !.apply_number_format = IsTruthy(attr.value)]
      [] AttrKey(attr) = QN("applyFont") ->
            [style EXCEPT !.apply_font = IsTruthy(attr.value)]
      [] AttrKey(attr) = QN("applyFill") ->
            [style EXCEPT !.apply_fill = IsTruthy(attr.value)]
      [] AttrKey(attr) = QN("applyBorder") ->
            [style EXCEPT !.apply_border = IsTruthy(attr.value)]
      [] AttrKey(attr) = QN("applyAlignment") ->
            [style EXCEPT !.apply_alignment = IsTruthy(attr.value)]
      [] OTHER -> style

AlignmentAttr(style, attr) ==
    CASE AttrKey(attr) = QN("horizontal") ->
            [style EXCEPT !.horizontal = Some(attr.value)]
      [] AttrKey(attr) = QN("vertical") ->
            [style EXCEPT !.vertical = Some(attr.value)]
      [] AttrKey(attr) = QN("wrapText") ->
            [style EXCEPT !.wrap_text = IsTruthy(attr.value)]
      [] AttrKey(attr) = QN("textRotation") ->
            [style EXCEPT !.text_rotation = ParseI32(attr.value)]
      [] AttrKey(attr) = QN("indent") ->
            [style EXCEPT !.indent = ParseU32(attr.value)]
      [] OTHER -> style

SzAttr(font, attr) ==
    IF AttrKey(attr) = QN("val") THEN [font EXCEPT !.size = ParseF64(attr.value)]
    ELSE font

FontColorAttr(font, attr) ==
    IF AttrKey(attr) = QN("rgb") THEN [font EXCEPT !.color = Some(attr.value)]
    ELSE font

FontNameAttr(font, attr) ==
    IF AttrKey(attr) = QN("val") THEN [font EXCEPT !.name = Some(attr.value)]
    ELSE font

PatternFillAttr(fill, attr) ==
    IF AttrKey(attr) = QN("patternType")
    THEN [fill EXCEPT !.pattern_type = Some(attr.value)]
    ELSE fill

FgColorAttr(fill, attr) ==
    IF AttrKey(attr) = QN("rgb") THEN [fill EXCEPT !.fg_color = Some(attr.value)]
    ELSE fill

BgColorAttr(fill, attr) ==
    IF AttrKey(attr) = QN("rgb") THEN [fill EXCEPT !.bg_color = Some(attr.value)]
    ELSE fill

\* The style attribute of a side element, routed by the side's name.
SideStyleAttr(side, border, attr) ==
    IF AttrKey(attr) = QN("style")
    THEN CASE side = "left" -> [border EXCEPT !.left_style = Some(attr.value)]
           [] side = "right" -> [border EXCEPT !.right_style = Some(attr.value)]
           [] side = "top" -> [border EXCEPT !.top_style = Some(attr.value)]
           [] side = "bottom" ->
                [border EXCEPT !.bottom_style = Some(attr.value)]
           [] OTHER -> border
    ELSE border

\* The rgb attribute of a color element, routed by current_border_side.
SideColorAttr(side, border, attr) ==
    IF AttrKey(attr) = QN("rgb")
    THEN CASE side = "left" -> [border EXCEPT !.left_color = Some(attr.value)]
           [] side = "right" -> [border EXCEPT !.right_color = Some(attr.value)]
           [] side = "top" -> [border EXCEPT !.top_color = Some(attr.value)]
           [] side = "bottom" ->
                [border EXCEPT !.bottom_color = Some(attr.value)]
           [] OTHER -> border
    ELSE border

NumFmtAttr(nf, attr) ==
    CASE AttrKey(attr) = QN("numFmtId") -> [nf EXCEPT !.id = ParseU32(attr.value)]
      [] AttrKey(attr) = QN("formatCode") ->
            [nf EXCEPT !.code = Some(attr.value)]
      [] OTHER -> nf

\* for attr in e.attributes().flatten() { .. } with the body of arm `el`;
\* side is the border side the arm routes by ("" elsewhere).
StyApplyAttr(el, side, acc, attr) ==
    CASE el = "xf" -> XfAttr(acc, attr)
      [] el = "alignment" -> AlignmentAttr(acc, attr)
      [] el = "sz" -> SzAttr(acc, attr)
      [] el = "font_color" -> FontColorAttr(acc, attr)
      [] el = "name" -> FontNameAttr(acc, attr)
      [] el = "patternFill" -> PatternFillAttr(acc, attr)
      [] el = "fgColor" -> FgColorAttr(acc, attr)
      [] el = "bgColor" -> BgColorAttr(acc, attr)
      [] el = "side" -> SideStyleAttr(side, acc, attr)
      [] el = "side_color" -> SideColorAttr(side, acc, attr)
      [] el = "numFmt" -> NumFmtAttr(acc, attr)

RECURSIVE StyForAttrs(_, _, _, _)
StyForAttrs(el, side, acc, attrs) ==
    IF attrs = <<>> THEN acc
    ELSE StyForAttrs(el, side, StyApplyAttr(el, side, acc, Head(attrs)),
                     Tail(attrs))

\* styles.cell_xfs.last_mut() patched by an alignment element.
AlignmentElement(st, e) ==
    IF st.cell_xfs = <<>> THEN st
    ELSE [st EXCEPT !.cell_xfs[Len(st.cell_xfs)] =
             StyForAttrs("alignment", "", @, e.attrs)]

\* styles.num_fmts.insert(id, code) when both were read.
NumFmtElement(st, e) ==
    LET nf == StyForAttrs("numFmt", "", [id |-> None, code |-> None], e.attrs)
    IN  IF IsSome(nf.id) /\ IsSome(nf.code)
        THEN [st EXCEPT !.num_fmts =
                 [k \in DOMAIN @ \cup {nf.id[1]} |->
                     IF k = nf.id[1] THEN nf.code[1] ELSE @[k]]]
        ELSE st

\* The current_font builder with one of its child elements applied.
FontChild(st, el, e) ==
    LET font == st.current_font[1]
    IN  [st EXCEPT !.current_font =
            Some(CASE el = "b" -> [font EXCEPT !.bold = TRUE]
                   [] el = "i" -> [font EXCEPT !.italic = TRUE]
                   [] el = "u" -> [font EXCEPT !.underline = TRUE]
                   [] el = "strike" -> [font EXCEPT !.strikethrough = TRUE]
                   [] el = "sz" -> StyForAttrs("sz", "", font, e.attrs)
                   [] el = "color" ->
                        StyForAttrs("font_color", "", font, e.attrs)
                   [] el = "name" -> StyForAttrs("name", "", font, e.attrs))]

Sides == {"left", "right", "top", "bottom"}

\* The Ok(Event::Start(e)) | Ok(Event::Empty(e)) arm: the first arm whose
\* pattern and guard match.
StyOnOpen(st, e) ==
    LET n == local_name(e)
    IN  CASE n = "cellXfs" -> [st EXCEPT !.in_cell_xfs = TRUE]
          [] n = "fonts" -> [st EXCEPT !.in_fonts = TRUE]
          [] n = "fills" -> [st EXCEPT !.in_fills = TRUE]
          [] n = "borders" -> [st EXCEPT !.in_borders = TRUE]
          [] n = "numFmts" -> [st EXCEPT !.in_num_fmts = TRUE]
          [] n = "xf" /\ st.in_cell_xfs ->
                [st EXCEPT !.cell_xfs =
                    Append(@, StyForAttrs("xf", "", NewStyle, e.attrs))]
          [] n = "alignment" /\ st.in_cell_xfs -> AlignmentElement(st, e)
          [] n = "font" /\ st.in_fonts ->
                [st EXCEPT !.current_font = Some(NewFont)]
          [] n \in {"b", "i", "u", "strike", "sz", "color", "name"}
                /\ IsSome(st.current_font) -> FontChild(st, n, e)
          [] n = "fill" /\ st.in_fills ->
                [st EXCEPT !.current_fill = Some(NewFill)]
          [] n = "patternFill" /\ IsSome(st.current_fill) ->
                [st EXCEPT !.in_pattern_fill = TRUE,
                           !.current_fill =
                               Some(StyForAttrs("patternFill", "",
                                                st.current_fill[1], e.attrs))]
          [] n = "fgColor" /\ st.in_pattern_fill ->
                IF IsSome(st.current_fill)
                THEN [st EXCEPT !.current_fill =
                         Some(StyForAttrs("fgColor", "", st.current_fill[1],
                                          e.attrs))]
                ELSE st
          [] n = "bgColor" /\ st.in_pattern_fill ->
                IF IsSome(st.current_fill)
                THEN [st EXCEPT !.current_fill =
                         Some(StyForAttrs("bgColor", "", st.current_fill[1],
                                          e.attrs))]
                ELSE st
          [] n = "border" /\ st.in_borders ->
                [st EXCEPT !.current_border = Some(NewBorder)]
          [] n \in Sides /\ IsSome(st.current_border) ->
                [st EXCEPT !.current_border_side = Some(n),
                           !.current_border =
                               Some(StyForAttrs("side", n,
                                                st.current_border[1], e.attrs))]
          [] n = "color" /\ IsSome(st.current_border_side) ->
                IF IsSome(st.current_border)
                THEN [st EXCEPT !.current_border =
                         Some(StyForAttrs("side_color",
                                          st.current_border_side[1],
                                          st.current_border[1], e.attrs))]
                ELSE st
          [] n = "numFmt" /\ st.in_num_fmts -> NumFmtElement(st, e)
          [] OTHER -> st

\* The Ok(Event::End(e)) arm.
StyOnEnd(st, e) ==
    LET n == local_name(e)
    IN  CASE n = "cellXfs" -> [st EXCEPT !.in_cell_xfs = FALSE]
          [] n = "fonts" -> [st EXCEPT !.in_fonts = FALSE]
          [] n = "fills" -> [st EXCEPT !.in_fills = FALSE]
          [] n = "borders" -> [st EXCEPT !.in_borders = FALSE]
          [] n = "numFmts" -> [st EXCEPT !.in_num_fmts = FALSE]
          [] n = "font" /\ st.in_fonts ->
                IF IsSome(st.current_font)
                THEN [st EXCEPT !.fonts = Append(@, st.current_font[1]),
                                !.current_font = None]
                ELSE st
          [] n = "fill" /\ st.in_fills ->
                IF IsSome(st.current_fill)
                THEN [st EXCEPT !.fills = Append(@, st.current_fill[1]),
                                !.current_fill = None,
                                !.in_pattern_fill = FALSE]
                ELSE [st EXCEPT !.in_pattern_fill = FALSE]
          [] n = "patternFill" -> [st EXCEPT !.in_pattern_fill = FALSE]
          [] n = "border" /\ st.in_borders ->
                IF IsSome(st.current_border)
                THEN [st EXCEPT !.borders = Append(@, st.current_border[1]),
                                !.current_border = None]
                ELSE st
          [] n \in Sides -> [st EXCEPT !.current_border_side = None]
          [] OTHER -> st

(***************************************************************************)
(* parse_workbook_impl                                                     *)
(***************************************************************************)
WbOnOpenNeedsRid(sheets, e) ==
    IF local_name(e) = "sheet"
    THEN LET sheet == ForAttrs("sheet", NewSheetInfo, e.attrs)
         IN  IF sheet.name # "" /\ sheet.rid # "" THEN Append(sheets, sheet)
             ELSE sheets
    ELSE sheets

\* The Ok(Event::Start(e)) | Ok(Event::Empty(e)) arm.
WbOnOpen(sheets, e) ==
    IF local_name(e) = "sheet"
    THEN LET sheet == ForAttrs("sheet", NewSheetInfo, e.attrs)
         IN  IF sheet.name # "" THEN Append(sheets, sheet) ELSE sheets
    ELSE sheets

(***************************************************************************)
(* parse_relationships_impl                                                *)
(***************************************************************************)
RelsOnOpenKeepsAll(rs, e) ==
    IF local_name(e) = "Relationship"
    THEN Append(rs, ForAttrs("Relationship", NewRelationship, e.attrs))
    ELSE rs

\* The Ok(Event::Start(e)) | Ok(Event::Empty(e)) arm.
RelsOnOpen(rs, e) ==
    IF local_name(e) = "Relationship"
    THEN LET rel == ForAttrs("Relationship", NewRelationship, e.attrs)
         IN  IF rel.id # "" THEN Append(rs, rel) ELSE rs
    ELSE rs

(***************************************************************************)
(* Documents: the events the tokenizer may return, per family of           *)
(* documents.                                                              *)
(***************************************************************************)
A1(k, v) == <<Attr(QN(k), v)>>

\* Rows and cells, written as open/close pairs or self-closing.
WsRowEvents ==
    { Start(QN("row"), A1("r", "1")), Empty(QN("row"), A1("r", "2")),
      End(QN("row")),
      Start(QN("c"), A1("r", "A1")), Empty(QN("c"), A1("r", "B1")),
      End(QN("c")),
      Text("x"), Comment, Eof, TokErr }

\* Shared-string entries: si holding t elements, text inside and outside.
SstEvents ==
    { Decl, Start(QN("si"), <<>>), End(QN("si")),
      Start(QN("t"), <<>>), End(QN("t")),
      Text("a"), Text("&amp;"), Eof, TokErr }

A3(k1, v1, k2, v2, k3, v3) ==
    <<Attr(QN(k1), v1), Attr(QN(k2), v2), Attr(QN(k3), v3)>>

\* Column declarations: overlapping ranges, min > max, an unparseable min,
\* a missing width.
WsColEvents ==
    { Decl,
      Empty(QN("col"), A3("min", "1", "max", "2", "width", "15")),
      Start(QN("col"), A3("min", "2", "max", "3", "width", "1.5")),
      End(QN("col")),
      Empty(QN("col"), A3("min", "3", "max", "1", "width", "2")),
      Empty(QN("col"), A3("min", "x", "max", "3", "width", "2")),
      Empty(QN("col"), <<Attr(QN("min"), "0"), Attr(QN("max"), "3")>>),
      Text("x"), Eof, TokErr }

\* Rows and cells with attributes that parse and that do not.
WsAttrEvents ==
    { Decl,
      Start(QN("row"), A3("r", "x", "ht", "1.5", "hidden", "1")),
      Start(QN("row"), <<Attr(QN("ht"), "x"), Attr(QN("hidden"), "0")>>),
      Start(QN("row"), A1("r", "2")),
      End(QN("row")),
      Start(QN("c"), <<Attr(QN("r"), "A1"), Attr(QN("s"), "x")>>),
      Start(QN("c"), A3("r", "B1", "s", "1", "t", "s")),
      End(QN("c")),
      Text("x"), Eof, TokErr }

\* Hyperlinks: with and without ref, with r:id, id or no relationship id.
WsLinkEvents ==
    { Decl,
      Empty(QN("hyperlink"),
            <<Attr(QN("ref"), "A1"), Attr(PQN("r", "id"), "rId1")>>),
      Start(QN("hyperlink"),
            <<Attr(QN("ref"), "B2"), Attr(QN("location"), "Sheet2!A1"),
              Attr(QN("display"), "d"), Attr(QN("tooltip"), "t")>>),
      End(QN("hyperlink")),
      Empty(QN("hyperlink"),
            <<Attr(QN("ref"), ""), Attr(PQN("r", "id"), "rId2")>>),
      Empty(QN("hyperlink"),
            <<Attr(PQN("r", "id"), "rId3"), Attr(QN("location"), "L")>>),
      Empty(QN("hyperlink"),
            <<Attr(QN("ref"), "C3"), Attr(QN("id"), "rId4")>>),
      Text("x"), Eof, TokErr }

\* workbook.xml: sheet elements with and without name, sheetId, r:id.
WbEvents ==
    { Decl,
      Empty(QN("sheet"),
            <<Attr(QN("name"), "Sheet1"), Attr(QN("sheetId"), "1"),
              Attr(PQN("r", "id"), "rId1")>>),
      Start(QN("sheet"),
            <<Attr(QN("name"), "Sheet2"), Attr(QN("sheetId"), "x")>>),
      End(QN("sheet")),
      Empty(QN("sheet"),
            <<Attr(QN("sheetId"), "2"), Attr(PQN("r", "id"), "rId2")>>),
      Empty(QN("sheet"), <<Attr(QN("name"), ""), Attr(QN("sheetId"), "2")>>),
      Empty(PQN("x", "sheet"),
            <<Attr(QN("name"), "Sheet3"), Attr(QN("state"), "hidden"),
              Attr(QN("id"), "rId3")>>),
      Empty(QN("definedName"), A1("name", "n")),
      Text("x"), Eof, TokErr }

\* A .rels part: Relationship elements with and without Id.
RelsEvents ==
    { Decl,
      Empty(QN("Relationship"),
            A3("Id", "rId1", "Type", "worksheet", "Target", "sheet1.xml")),
      Start(QN("Relationship"),
            <<Attr(QN("Id"), "rId2"), Attr(QN("Type"), "hyperlink"),
              Attr(QN("Target"), "http://x"),
              Attr(QN("TargetMode"), "External")>>),
      End(QN("Relationship")),
      Empty(QN("Relationship"),
            <<Attr(QN("Type"), "worksheet"), Attr(QN("Target"), "sheet2.xml")>>),
      Empty(QN("Relationship"),
            A3("Id", "", "Type", "worksheet", "Target", "sheet3.xml")),
      Empty(QN("Override"),
            A3("Id", "rId9", "Type", "worksheet", "Target", "sheet9.xml")),
      Text("x"), Eof, TokErr }

\* styles.xml with prefixed names: xf and alignment in cellXfs.
NsStyEvents ==
    { Decl,
      Start(PQN("x", "cellXfs"), <<>>), End(PQN("x", "cellXfs")),
      Empty(QN("xf"), <<Attr(PQN("x", "fontId"), "1"), Attr(QN("fillId"), "2")>>),
      Empty(PQN("x", "alignment"),
            <<Attr(PQN("x", "horizontal"), "center"),
              Attr(QN("vertical"), "top")>>),
      Text("x"), Eof, TokErr }

\* A worksheet with prefixed element and attribute names.
NsWsEvents ==
    { Decl,
      Start(PQN("x", "row"),
            <<Attr(PQN("x", "r"), "2"), Attr(QN("hidden"), "1")>>),
      End(PQN("x", "row")),
      Empty(QN("mergeCell"), <<Attr(PQN("x", "ref"), "A1:B2")>>),
      Empty(PQN("x", "hyperlink"),
            <<Attr(QN("ref"), "A1"), Attr(PQN("r", "id"), "rId1"),
              Attr(PQN("x", "location"), "L")>>),
      Text("x"), Eof, TokErr }

\* workbook.xml with prefixed attribute names.
NsWbEvents ==
    { Decl,
      Empty(QN("sheet"),
            <<Attr(PQN("x", "name"), "Sheet1"), Attr(QN("sheetId"), "1"),
              Attr(PQN("r", "id"), "rId1")>>),
      Start(PQN("x", "sheet"),
            <<Attr(QN("name"), "Sheet2"), Attr(PQN("x", "sheetId"), "2"),
              Attr(PQN("r", "id"), "rId2")>>),
      End(PQN("x", "sheet")),
      Text("x"), Eof, TokErr }

\* A .rels part with prefixed attribute names.
NsRelsEvents ==
    { Decl,
      Empty(QN("Relationship"),
            <<Attr(PQN("r", "Id"), "rId1"), Attr(QN("Type"), "worksheet"),
              Attr(QN("Target"), "sheet1.xml")>>),
      Start(PQN("x", "Relationship"),
            <<Attr(QN("Id"), "rId2"), Attr(PQN("x", "Type"), "hyperlink"),
              Attr(QN("Target"), "http://x")>>),
      End(PQN("x", "Relationship")),
      Text("x"), Eof, TokErr }

\* Any document: elements of every part, an element and an attribute no
\* extractor knows, a tokenizer error, a close tag that closes nothing.
AnyEvents ==
    { Decl, Comment,
      Start(QN("row"), <<Attr(QN("r"), "1"), Attr(QN("bogus"), "1")>>),
      End(QN("row")),
      Start(QN("si"), <<>>), End(QN("si")),
      Start(QN("fonts"), <<>>), End(QN("fonts")),
      Start(QN("font"), <<>>), End(QN("font")),
      Empty(QN("sheet"), <<Attr(QN("name"), "Sheet1"), Attr(QN("bogus"), "1")>>),
      Empty(QN("Relationship"), A1("Id", "rId1")),
      Start(QN("ext"), A1("uri", "u")), End(QN("ext")),
      Text("x"), Eof, TokErr, UnmatchedEnd(QN("row")) }

\* The documents of two invocations that run together: for each extractor
\* an element it reacts to, text, and the ways its scan ends.
PairWsEvents ==
    { Decl, Start(QN("v"), <<>>), End(QN("v")), Text("x"), Eof, TokErr }
PairSstEvents ==
    { Decl, Start(QN("si"), <<>>), End(QN("si")), Text("x"), Eof, TokErr }
PairStyEvents ==
    { Decl, Start(QN("fonts"), <<>>), End(QN("fonts")), Text("x"), Eof, TokErr }
PairWbEvents ==
    { Decl, Empty(QN("sheet"), A1("name", "Sheet1")), Text("x"), Eof, TokErr }
PairRelsEvents ==
    { Decl, Empty(QN("Relationship"), A1("Id", "rId1")), Text("x"), Eof, TokErr }

PairFamilies == {"pair_ws", "pair_sst", "pair_sty", "pair_wb", "pair_rels"}

\* The family of the documents given to extractor ex when two run together.
PairFamily(ex) ==
    CASE ex = "worksheet" -> "pair_ws"
      [] ex = "shared_strings" -> "pair_sst"
      [] ex = "styles" -> "pair_sty"
      [] ex = "workbook" -> "pair_wb"
      [] ex = "relationships" -> "pair_rels"

\* styles.xml number formats: a custom format and the same id again.
StyFmtEvents ==
    { Decl,
      Start(QN("numFmts"), <<>>), End(QN("numFmts")),
      Empty(QN("numFmt"),
            <<Attr(QN("numFmtId"), "2"), Attr(QN("formatCode"), "0.0")>>),
      Empty(QN("numFmt"),
            <<Attr(QN("numFmtId"), "2"), Attr(QN("formatCode"), "0%")>>),
      Text("x"), Eof, TokErr }

\* Column declarations with overlapping ranges.
WsOverlapEvents ==
    { Decl,
      Empty(QN("col"), A3("min", "1", "max", "2", "width", "15")),
      Start(QN("col"), A3("min", "2", "max", "3", "width", "1.5")),
      End(QN("col")),
      Text("x"), Eof, TokErr }

\* Cells and their value elements anywhere: c inside and outside a row, v, f
\* and is inside and outside a c, self-closing v and f, text everywhere.
WsValEvents ==
    { Decl,
      Start(QN("row"), A1("r", "1")), End(QN("row")),
      Start(QN("c"), A1("r", "A1")), End(QN("c")),
      Start(QN("v"), <<>>), End(QN("v")), Empty(QN("v"), <<>>),
      Start(QN("f"), <<>>), End(QN("f")), Empty(QN("f"), A1("t", "shared")),
      Start(QN("is"), <<>>), End(QN("is")), Empty(QN("is"), <<>>),
      Text("x"), Eof, TokErr }

\* One cell of a worksheet and its content: v, f and is as children of c
\* (open/close pairs or self-closing), t and phoneticPr inside is, text.
WsCellEvents ==
    { Decl, Start(QN("c"), A1("r", "A1")), End(QN("c")),
      Start(QN("v"), <<>>), End(QN("v")), Empty(QN("v"), <<>>),
      Start(QN("f"), <<>>), End(QN("f")), Empty(QN("f"), A1("t", "shared")),
      Start(QN("is"), <<>>), End(QN("is")),
      Start(QN("t"), <<>>), End(QN("t")), Empty(QN("phoneticPr"), <<>>),
      Text("a"), Text("1"), Eof, TokErr }

\* styles.xml cell formats: cellXfs and cellStyleXfs (cellXfs also
\* self-closing), xf as a pair or self-closing, alignment.
StyXfEvents ==
    { Decl,
      Start(QN("cellXfs"), <<>>), End(QN("cellXfs")),
      Empty(QN("cellXfs"), <<>>),
      Start(QN("cellStyleXfs"), <<>>), End(QN("cellStyleXfs")),
      Empty(QN("xf"), <<Attr(QN("fontId"), "1"), Attr(QN("applyFont"), "1")>>),
      Start(QN("xf"), <<Attr(QN("fontId"), "2"), Attr(QN("numFmtId"), "x")>>),
      End(QN("xf")),
      Empty(QN("alignment"),
            <<Attr(QN("horizontal"), "center"), Attr(QN("wrapText"), "1")>>),
      Text("x"), Eof, TokErr }

\* styles.xml regions: each of the five region elements as an open, a close
\* and a self-closing tag.
Regions == {"cellXfs", "fonts", "fills", "borders", "numFmts"}
StyRegionEvents ==
    { Decl, Eof, TokErr }
    \cup { Start(QN(r), <<>>) : r \in Regions }
    \cup { End(QN(r)) : r \in Regions }
    \cup { Empty(QN(r), <<>>) : r \in Regions }

\* styles.xml records: font, fill and border elements (pairs and
\* self-closing) inside fonts, fills, borders and dxfs; b inside font.
StyRecEvents ==
    { Decl, Eof, TokErr,
      Start(QN("dxfs"), <<>>), End(QN("dxfs")), Empty(QN("b"), <<>>) }
    \cup { Start(QN(r), <<>>) : r \in {"fonts", "fills", "borders"} }
    \cup { End(QN(r)) : r \in {"fonts", "fills", "borders"} }
    \cup { Start(QN(r), <<>>) : r \in {"font", "fill", "border"} }
    \cup { End(QN(r)) : r \in {"font", "fill", "border"} }
    \cup { Empty(QN(r), <<>>) : r \in {"font", "fill", "border"} }

\* styles.xml fills: fill inside fills, patternFill (pair and self-closing)
\* and gradientFill inside fill, fgColor and bgColor with and without rgb.
StyFillEvents ==
    { Decl, Eof, TokErr,
      Start(QN("fills"), <<>>), End(QN("fills")),
      Start(QN("fill"), <<>>), End(QN("fill")),
      Start(QN("patternFill"), <<Attr(QN("patternType"), "solid")>>),
      End(QN("patternFill")),
      Empty(QN("patternFill"), <<Attr(QN("patternType"), "none")>>),
      Start(QN("gradientFill"), <<>>), End(QN("gradientFill")),
      Empty(QN("fgColor"), <<Attr(QN("rgb"), "F")>>),
      Empty(QN("fgColor"), <<Attr(QN("theme"), "1")>>),
      Empty(QN("bgColor"), <<Attr(QN("rgb"), "B")>>) }

\* styles.xml borders: border inside borders; the sides left and top (pairs
\* and self-closing) and diagonal inside border; color with and without rgb.
StyBorderEvents ==
    { Decl, Eof, TokErr,
      Start(QN("borders"), <<>>), End(QN("borders")),
      Start(QN("border"), <<>>), End(QN("border")),
      Start(QN("left"), <<Attr(QN("style"), "thin")>>), End(QN("left")),
      Empty(QN("left"), <<>>),
      Start(QN("top"), <<>>), End(QN("top")),
      Start(QN("diagonal"), <<>>), End(QN("diagonal")),
      Empty(QN("color"), <<Attr(QN("rgb"), "C")>>),
      Empty(QN("color"), <<Attr(QN("theme"), "1")>>) }

\* styles.xml number formats inside numFmts (pair and self-closing), under
\* dxfs and at the top: complete, repeated, without code, without id, with
\* an id that is no number, and written as a pair.
StyNumFmtEvents ==
    { Decl, Eof, TokErr,
      Start(QN("numFmts"), <<>>), End(QN("numFmts")),
      Empty(QN("numFmts"), <<>>),
      Start(QN("dxfs"), <<>>), End(QN("dxfs")),
      Empty(QN("numFmt"),
            <<Attr(QN("numFmtId"), "2"), Attr(QN("formatCode"), "0.0")>>),
      Empty(QN("numFmt"),
            <<Attr(QN("formatCode"), "0%"), Attr(QN("numFmtId"), "2")>>),
      Empty(QN("numFmt"), <<Attr(QN("numFmtId"), "3")>>),
      Empty(QN("numFmt"), <<Attr(QN("formatCode"), "0")>>),
      Empty(QN("numFmt"),
            <<Attr(QN("numFmtId"), "x"), Attr(QN("formatCode"), "0")>>),
      Start(QN("numFmt"),
            <<Attr(QN("numFmtId"), "3"), Attr(QN("formatCode"), "#")>>),
      End(QN("numFmt")) }

\* Shared strings with self-closing si and t elements.
SstEmptyEvents ==
    { Decl, Start(QN("si"), <<>>), End(QN("si")), Empty(QN("si"), <<>>),
      Start(QN("t"), <<>>), End(QN("t")), Empty(QN("t"), <<>>),
      Text("a"), Eof, TokErr }

\* Documents whose records accumulate: rows with cells, merge ranges and
\* hyperlinks of a worksheet; the sheets of a workbook; relationships.
WsAppEvents ==
    { Decl,
      Start(QN("row"), A1("r", "1")), End(QN("row")),
      Start(QN("c"), A1("r", "A1")), End(QN("c")),
      Empty(QN("mergeCell"), A1("ref", "A1:B2")),
      Empty(QN("hyperlink"),
            <<Attr(QN("ref"), "A1"), Attr(PQN("r", "id"), "rId1")>>),
      Text("x"), Eof, TokErr }
WbAppEvents ==
    { Decl,
      Empty(QN("sheet"), <<Attr(QN("name"), "Sheet1"), Attr(QN("sheetId"), "1")>>),
      Empty(QN("sheet"), <<Attr(QN("name"), "Sheet2"), Attr(QN("sheetId"), "2")>>),
      Eof, TokErr }
RelsAppEvents ==
    { Decl,
      Empty(QN("Relationship"),
            A3("Id", "rId1", "Type", "worksheet", "Target", "sheet1.xml")),
      Empty(QN("Relationship"),
            A3("Id", "rId2", "Type", "worksheet", "Target", "sheet2.xml")),
      Eof, TokErr }

Alphabet(f) ==
    CASE f = "ws_rows" -> WsRowEvents
      [] f = "ws_cols" -> WsColEvents
      [] f = "ws_attrs" -> WsAttrEvents
      [] f = "ws_links" -> WsLinkEvents
      [] f = "sst" -> SstEvents
      [] f = "wb" -> WbEvents
      [] f = "rels" -> RelsEvents
      [] f = "ns_ws" -> NsWsEvents
      [] f = "ns_sty" -> NsStyEvents
      [] f = "ns_wb" -> NsWbEvents
      [] f = "ns_rels" -> NsRelsEvents
      [] f = "any" -> AnyEvents
      [] f = "pair_ws" -> PairWsEvents
      [] f = "pair_sst" -> PairSstEvents
      [] f = "pair_sty" -> PairStyEvents
      [] f = "pair_wb" -> PairWbEvents
      [] f = "pair_rels" -> PairRelsEvents
      [] f = "sty_fmts" -> StyFmtEvents
      [] f = "ws_overlap" -> WsOverlapEvents
      [] f = "ws_vals" -> WsValEvents
      [] f = "ws_cell" -> WsCellEvents
      [] f = "sty_xfs" -> StyXfEvents
      [] f = "sty_regions" -> StyRegionEvents
      [] f = "sty_recs" -> StyRecEvents
      [] f = "sty_fills" -> StyFillEvents
      [] f = "sty_borders" -> StyBorderEvents
      [] f = "sty_numfmts" -> StyNumFmtEvents
      [] f = "sst_empty" -> SstEmptyEvents
      [] f = "ws_app" -> WsAppEvents
      [] f = "wb_app" -> WbAppEvents
      [] f = "rels_app" -> RelsAppEvents

\* The events of the documents each extractor is given.
WsDocEvents ==
    WsRowEvents \cup WsColEvents \cup WsAttrEvents \cup WsLinkEvents
        \cup NsWsEvents \cup AnyEvents \cup PairWsEvents
        \cup WsOverlapEvents \cup WsValEvents \cup WsCellEvents
        \cup WsAppEvents
SstDocEvents == SstEvents \cup AnyEvents \cup PairSstEvents \cup SstEmptyEvents
StyDocEvents == NsStyEvents \cup AnyEvents \cup PairStyEvents \cup StyFmtEvents
        \cup StyXfEvents \cup StyRegionEvents
        \cup StyRecEvents \cup StyFillEvents \cup StyBorderEvents
        \cup StyNumFmtEvents
WbDocEvents == WbEvents \cup NsWbEvents \cup AnyEvents \cup PairWbEvents
        \cup WbAppEvents
RelsDocEvents == RelsEvents \cup NsRelsEvents \cup AnyEvents \cup PairRelsEvents
        \cup RelsAppEvents

(***************************************************************************)
(* The tokenizer.  quick_xml checks end names, so in the events it returns *)
(* Ok for, every End closes the innermost open element; OpenStack is the   *)
(* names of the elements open after a sequence of events, Unbalanced when  *)
(* some End closes nothing or the wrong element.                           *)
(***************************************************************************)
Unbalanced == << <<"", "#unbalanced">> >>

\* The stack of open elements after event e.
Push(s, e) ==
    IF s = Unbalanced THEN Unbalanced
    ELSE CASE e.type = "Start" -> Append(s, e.name)
           [] e.type = "End" ->
                IF s # <<>> /\ s[Len(s)] = e.name
                THEN SubSeq(s, 1, Len(s) - 1)
                ELSE Unbalanced
           [] OTHER -> s

RECURSIVE OpenStack(_)
OpenStack(tr) ==
    IF tr = <<>> THEN <<>>
    ELSE Push(OpenStack(SubSeq(tr, 1, Len(tr) - 1)), tr[Len(tr)])

\* The shape of a shared-strings document: si at the top, t inside si.
SstShape(e) ==
    /\ IsOpen(e, "si") => open = <<>>
    /\ IsOpen(e, "t") => open # <<>> /\ open[Len(open)] = QN("si")

\* The shape of a cell of a worksheet: c at the top, v, f and is children
\* of c, t and phoneticPr children of is, digits in v, letters in f, is and t.
CellShape(e) ==
    LET top == IF open = <<>> THEN "" ELSE open[Len(open)][2]
    IN  /\ IsOpen(e, "c") => top = ""
        /\ (IsOpen(e, "v") \/ IsOpen(e, "f") \/ IsOpen(e, "is")) => top = "c"
        /\ (IsOpen(e, "t") \/ IsOpen(e, "phoneticPr")) => top = "is"
        /\ e = Text("1") => top = "v"
        /\ e = Text("a") => top \in {"f", "is", "t"}

\* The shape of the record regions of a styles document: fonts, fills,
\* borders and dxfs at the top, font in fonts or dxfs, fill in fills or
\* dxfs, border in borders or dxfs, b in font.
RecShape(e) ==
    LET top == IF open = <<>> THEN "" ELSE open[Len(open)][2]
    IN  /\ (\E r \in {"fonts", "fills", "borders", "dxfs"} : IsOpen(e, r))
               => top = ""
        /\ IsOpen(e, "font") => top \in {"fonts", "dxfs"}
        /\ IsOpen(e, "fill") => top \in {"fills", "dxfs"}
        /\ IsOpen(e, "border") => top \in {"borders", "dxfs"}
        /\ IsOpen(e, "b") => top = "font"

\* The shape of the fills of a styles document: fills at the top, fill in
\* fills, patternFill and gradientFill in fill.
FillShape(e) ==
    LET top == IF open = <<>> THEN "" ELSE open[Len(open)][2]
    IN  /\ IsOpen(e, "fills") => top = ""
        /\ IsOpen(e, "fill") => top = "fills"
        /\ (IsOpen(e, "patternFill") \/ IsOpen(e, "gradientFill"))
               => top = "fill"

\* The shape of the borders of a styles document: borders at the top, border
\* in borders, the sides and diagonal in border, color in a side, in
\* diagonal or in border.
BorderShape(e) ==
    LET top == IF open = <<>> THEN "" ELSE open[Len(open)][2]
    IN  /\ IsOpen(e, "borders") => top = ""
        /\ IsOpen(e, "border") => top = "borders"
        /\ (IsOpen(e, "left") \/ IsOpen(e, "top") \/ IsOpen(e, "diagonal"))
               => top = "border"
        /\ IsOpen(e, "color") => top \in {"left", "top", "diagonal", "border"}

\* The shape of the number formats of a styles document: numFmts and dxfs
\* at the top, no numFmt inside a numFmt.
NumFmtShape(e) ==
    LET top == IF open = <<>> THEN "" ELSE open[Len(open)][2]
    IN  /\ (IsOpen(e, "numFmts") \/ IsOpen(e, "dxfs")) => top = ""
        /\ IsOpen(e, "numFmt") => top # "numFmt"

\* The shape of a worksheet whose records accumulate: rows, merge ranges and
\* hyperlinks at the top, c in a row, text in a c.
AppShape(e) ==
    LET top == IF open = <<>> THEN "" ELSE open[Len(open)][2]
    IN  /\ (IsOpen(e, "row") \/ IsOpen(e, "mergeCell")
               \/ IsOpen(e, "hyperlink")) => top = ""
        /\ IsOpen(e, "c") => top = "row"
        /\ e.type = "Text" => top = "c"

\* read_event_into can return e next, reading a document of family fam
\* after the events tr that left the elements op open.
OfferedTo(fam, op, tr, e) ==
    /\ e \in Alphabet(fam)
    /\ e.type = "End" => op # <<>> /\ op[Len(op)] = e.name
    /\ e.type = "Eof" => op = <<>>
    /\ e.type = "Decl" => tr = <<>>
    /\ e.type = "Err" /\ e.name # QN("") =>
           ~(op # <<>> /\ op[Len(op)] = e.name)

Offered(e) ==
    /\ OfferedTo(family, open, trace, e)
    /\ family \in {"sst", "sst_empty"} => SstShape(e)
    /\ family = "ws_cell" => CellShape(e)
    /\ family = "sty_recs" => RecShape(e)
    /\ family = "sty_fills" => FillShape(e)
    /\ family = "sty_borders" => BorderShape(e)
    /\ family = "sty_numfmts" => NumFmtShape(e)
    /\ family = "ws_app" => AppShape(e)

(***************************************************************************)
(* One iteration of an extractor's loop as a function of its locals, and   *)
(* the locals after reading a whole sequence of events.                    *)
(***************************************************************************)
\* The locals of the running extractor.
Locals ==
    CASE extractor = "worksheet" -> ws
      [] extractor = "shared_strings" -> sst
      [] extractor = "styles" -> sty
      [] extractor = "workbook" -> wb
      [] extractor = "relationships" -> rels

InitialLocals(ex) ==
    CASE ex = "worksheet" -> WsInit
      [] ex = "shared_strings" -> SstInit
      [] ex = "styles" -> StyInit
      [] ex = "workbook" -> <<>>
      [] ex = "relationships" -> <<>>

\* match reader.read_event_into(&mut buf) { .. } of extractor ex.
Step(ex, st, e) ==
    CASE ex = "worksheet" ->
            CASE e.type \in {"Start", "Empty"} -> WsOnOpen(st, e)
              [] e.type = "End" -> WsOnEnd(st, e)
              [] e.type = "Text" -> WsOnText(st, e)
              [] OTHER -> st
      [] ex = "shared_strings" ->
            CASE e.type = "Start" -> SstOnStart(st, e)
              [] e.type = "End" -> SstOnEnd(st, e)
              [] e.type = "Text" -> SstOnText(st, e)
              [] OTHER -> st
      [] ex = "styles" ->
            CASE e.type \in {"Start", "Empty"} -> StyOnOpen(st, e)
              [] e.type = "End" -> StyOnEnd(st, e)
              [] OTHER -> st
      [] ex = "workbook" ->
            IF e.type \in {"Start", "Empty"} THEN WbOnOpen(st, e) ELSE st
      [] ex = "relationships" ->
            IF e.type \in {"Start", "Empty"} THEN RelsOnOpen(st, e) ELSE st

RECURSIVE Run(_, _)
Run(ex, tr) ==
    IF tr = <<>> THEN InitialLocals(ex)
    ELSE Step(ex, Run(ex, SubSeq(tr, 1, Len(tr) - 1)), tr[Len(tr)])

(***************************************************************************)
(* A second invocation.  Its locals live in its own frame: peer.locals.    *)
(* In mode "twin" it reads the same events as the first invocation, step   *)
(* for step; in mode "pair" it reads its own document at its own pace.     *)
(***************************************************************************)
Terminal(e) == e.type \in {"Eof", "Err"}

NoPeer ==
    [mode |-> "none", extractor |-> "", pc |-> "done", trace |-> <<>>,
     open |-> <<>>, locals |-> <<>>]

\* The locals a call of extractor ex starts with, were the locals of the
\* running invocation of the same extractor static.
LeftoverLocals(ex) == IF ex = extractor THEN Locals ELSE InitialLocals(ex)

\* The `let mut` declarations at the head of extractor ex.
EntryLocals(ex) == InitialLocals(ex)

\* A call of extractor ex.
Called(mode, ex) ==
    [mode |-> mode, extractor |-> ex, pc |-> "scan", trace |-> <<>>,
     open |-> <<>>, locals |-> EntryLocals(ex)]

\* One iteration that inserts no column width and no number format.
StepWithoutInsert(ex, st, e) ==
    IF e.type \in {"Start", "Empty"} /\ local_name(e) \in {"col", "numFmt"}
    THEN st
    ELSE Step(ex, st, e)

\* One iteration of the second invocation's loop.
PeerStep(ex, st, e) == Step(ex, st, e)

\* The second invocation after read_event_into returned e to it.
PeerRead(p, e) ==
    [p EXCEPT !.trace = Append(@, e),
              !.open = Push(@, e),
              !.locals = PeerStep(p.extractor, @, e),
              !.pc = IF Terminal(e) THEN "done" ELSE @]

\* The second invocation after the first read e.
PeerAfter(e) == IF peer.mode = "twin" THEN PeerRead(peer, e) ELSE peer

(***************************************************************************)
(* The loops.  Reads(e): read_event_into returns e in this iteration.      *)
(***************************************************************************)
MaxLen ==
    CASE family = "any" -> MaxAnyEvents
      [] family \in PairFamilies -> MaxPairEvents
      [] family = "ws_vals" -> MaxValEvents
      [] family = "ws_cell" -> MaxCellEvents
      [] family \in {"sty_xfs", "sty_regions", "sty_numfmts"} -> MaxXfEvents
      [] family \in {"sty_recs", "sty_fills", "sty_borders", "sst_empty",
                      "ws_app", "wb_app", "rels_app"} -> MaxRecEvents
      [] extractor = "shared_strings" -> MaxSstEvents
      [] OTHER -> MaxEvents

Reads(e) ==
    /\ pc = "scan"
    /\ Offered(e)
    /\ ~Terminal(e) => Len(trace) < MaxLen
    /\ trace' = Append(trace, e)
    /\ open' = Push(open, e)
    /\ peer' = PeerAfter(e)
    /\ UNCHANGED <<extractor, family>>

\* The loop going on to its next iteration after end-of-input.
ContinueAtEof == pc' = pc

\* Ok(Event::Eof) => break and Err(_) => break, then the function returns.
BreakAndReturn == pc' = "done"

\* Err(_) => break, then the function returns what it has accumulated.
RaiseOnErr == pc' = "failed"
BreakOnErr == pc' = "done"

InitLocals ==
    /\ pc = "scan"
    /\ trace = <<>>
    /\ open = <<>>
    /\ ws = WsInit
    /\ sst = SstInit
    /\ sty = StyInit
    /\ wb = <<>>
    /\ rels = <<>>

Init == InitLocals /\ peer = NoPeer

\* ---- parse_worksheet_impl: one action per arm of the match ----
WsStartOrEmpty(e) ==
    /\ extractor = "worksheet" /\ e.type \in {"Start", "Empty"}
    /\ Reads(e)
    /\ ws' = WsOnOpen(ws, e)
    /\ UNCHANGED <<pc, sst, sty, wb, rels>>

WsEnd(e) ==
    /\ extractor = "worksheet" /\ e.type = "End"
    /\ Reads(e)
    /\ ws' = WsOnEnd(ws, e)
    /\ UNCHANGED <<pc, sst, sty, wb, rels>>

WsText(e) ==
    /\ extractor = "worksheet" /\ e.type = "Text"
    /\ Reads(e)
    /\ ws' = WsOnText(ws, e)
    /\ UNCHANGED <<pc, sst, sty, wb, rels>>

WsEof(e) ==
    /\ extractor = "worksheet" /\ e.type = "Eof"
    /\ Reads(e)
    /\ BreakAndReturn
    /\ UNCHANGED <<ws, sst, sty, wb, rels>>

WsErr(e) ==
    /\ extractor = "worksheet" /\ e.type = "Err"
    /\ Reads(e)
    /\ BreakOnErr
    /\ UNCHANGED <<ws, sst, sty, wb, rels>>

WsIgnored(e) ==
    /\ extractor = "worksheet" /\ e.type \in {"Comment", "Decl"}
    /\ Reads(e)
    /\ UNCHANGED <<pc, ws, sst, sty, wb, rels>>

NextWs ==
    \E e \in WsDocEvents :
        \/ WsStartOrEmpty(e)
        \/ WsEnd(e)
        \/ WsText(e)
        \/ WsEof(e)
        \/ WsErr(e)
        \/ WsIgnored(e)

\* ---- parse_shared_strings_impl ----
SstStart(e) ==
    /\ extractor = "shared_strings" /\ e.type = "Start"
    /\ Reads(e)
    /\ sst' = SstOnStart(sst, e)
    /\ UNCHANGED <<pc, ws, sty, wb, rels>>

SstEnd(e) ==
    /\ extractor = "shared_strings" /\ e.type = "End"
    /\ Reads(e)
    /\ sst' = SstOnEnd(sst, e)
    /\ UNCHANGED <<pc, ws, sty, wb, rels>>

SstText(e) ==
    /\ extractor = "shared_strings" /\ e.type = "Text"
    /\ Reads(e)
    /\ sst' = SstOnText(sst, e)
    /\ UNCHANGED <<pc, ws, sty, wb, rels>>

SstEof(e) ==
    /\ extractor = "shared_strings" /\ e.type = "Eof"
    /\ Reads(e)
    /\ BreakAndReturn
    /\ UNCHANGED <<ws, sst, sty, wb, rels>>

SstErr(e) ==
    /\ extractor = "shared_strings" /\ e.type = "Err"
    /\ Reads(e)
    /\ BreakOnErr
    /\ UNCHANGED <<ws, sst, sty, wb, rels>>

\* `_ => {}`: Event::Empty falls here too.
SstIgnored(e) ==
    /\ extractor = "shared_strings" /\ e.type \in {"Empty", "Comment", "Decl"}
    /\ Reads(e)
    /\ UNCHANGED <<pc, ws, sst, sty, wb, rels>>

NextSst ==
    \E e \in SstDocEvents :
        \/ SstStart(e)
        \/ SstEnd(e)
        \/ SstText(e)
        \/ SstEof(e)
        \/ SstErr(e)
        \/ SstIgnored(e)

\* ---- parse_styles_impl ----
StyStartOrEmpty(e) ==
    /\ extractor = "styles" /\ e.type \in {"Start", "Empty"}
    /\ Reads(e)
    /\ sty' = StyOnOpen(sty, e)
    /\ UNCHANGED <<pc, ws, sst, wb, rels>>

StyEnd(e) ==
    /\ extractor = "styles" /\ e.type = "End"
    /\ Reads(e)
    /\ sty' = StyOnEnd(sty, e)
    /\ UNCHANGED <<pc, ws, sst, wb, rels>>

StyEof(e) ==
    /\ extractor = "styles" /\ e.type = "Eof"
    /\ Reads(e)
    /\ BreakAndReturn
    /\ UNCHANGED <<ws, sst, sty, wb, rels>>

StyErr(e) ==
    /\ extractor = "styles" /\ e.type = "Err"
    /\ Reads(e)
    /\ BreakOnErr
    /\ UNCHANGED <<ws, sst, sty, wb, rels>>

\* `_ => {}`: Text and the rest.
StyIgnored(e) ==
    /\ extractor = "styles" /\ e.type \in {"Text", "Comment", "Decl"}
    /\ Reads(e)
    /\ UNCHANGED <<pc, ws, sst, sty, wb, rels>>

NextSty ==
    \E e \in StyDocEvents :
        \/ StyStartOrEmpty(e)
        \/ StyEnd(e)
        \/ StyEof(e)
        \/ StyErr(e)
        \/ StyIgnored(e)

\* ---- parse_workbook_impl ----
WbStartOrEmpty(e) ==
    /\ extractor = "workbook" /\ e.type \in {"Start", "Empty"}
    /\ Reads(e)
    /\ wb' = WbOnOpen(wb, e)
    /\ UNCHANGED <<pc, ws, sst, sty, rels>>

WbEof(e) ==
    /\ extractor = "workbook" /\ e.type = "Eof"
    /\ Reads(e)
    /\ BreakAndReturn
    /\ UNCHANGED <<ws, sst, sty, wb, rels>>

WbErr(e) ==
    /\ extractor = "workbook" /\ e.type = "Err"
    /\ Reads(e)
    /\ BreakOnErr
    /\ UNCHANGED <<ws, sst, sty, wb, rels>>

\* `_ => {}`: End, Text and the rest.
WbIgnored(e) ==
    /\ extractor = "workbook" /\ e.type \in {"End", "Text", "Comment", "Decl"}
    /\ Reads(e)
    /\ UNCHANGED <<pc, ws, sst, sty, wb, rels>>

NextWb ==
    \E e \in WbDocEvents :
        \/ WbStartOrEmpty(e)
        \/ WbEof(e)
        \/ WbErr(e)
        \/ WbIgnored(e)

\* ---- parse_relationships_impl ----
RelsStartOrEmpty(e) ==
    /\ extractor = "relationships" /\ e.type \in {"Start", "Empty"}
    /\ Reads(e)
    /\ rels' = RelsOnOpen(rels, e)
    /\ UNCHANGED <<pc, ws, sst, sty, wb>>

RelsEof(e) ==
    /\ extractor = "relationships" /\ e.type = "Eof"
    /\ Reads(e)
    /\ BreakAndReturn
    /\ UNCHANGED <<ws, sst, sty, wb, rels>>

RelsErr(e) ==
    /\ extractor = "relationships" /\ e.type = "Err"
    /\ Reads(e)
    /\ BreakOnErr
    /\ UNCHANGED <<ws, sst, sty, wb, rels>>

RelsIgnored(e) ==
    /\ extractor = "relationships" /\ e.type \in {"End", "Text", "Comment", "Decl"}
    /\ Reads(e)
    /\ UNCHANGED <<pc, ws, sst, sty, wb, rels>>

NextRels ==
    \E e \in RelsDocEvents :
        \/ RelsStartOrEmpty(e)
        \/ RelsEof(e)
        \/ RelsErr(e)
        \/ RelsIgnored(e)

(***************************************************************************)
(* Specifications: one extractor reading the documents of one family.      *)
(***************************************************************************)
InitWsRows == extractor = "worksheet" /\ family = "ws_rows" /\ Init
SpecWsRows == InitWsRows /\ [][NextWs]_vars

InitWsCols == extractor = "worksheet" /\ family = "ws_cols" /\ Init
SpecWsCols == InitWsCols /\ [][NextWs]_vars

InitWsAttrs == extractor = "worksheet" /\ family = "ws_attrs" /\ Init
SpecWsAttrs == InitWsAttrs /\ [][NextWs]_vars

InitWsLinks == extractor = "worksheet" /\ family = "ws_links" /\ Init
SpecWsLinks == InitWsLinks /\ [][NextWs]_vars

InitWsVals == extractor = "worksheet" /\ family = "ws_vals" /\ Init
SpecWsVals == InitWsVals /\ [][NextWs]_vars

InitWsCell == extractor = "worksheet" /\ family = "ws_cell" /\ Init
SpecWsCell == InitWsCell /\ [][NextWs]_vars

InitWb == extractor = "workbook" /\ family = "wb" /\ Init
SpecWb == InitWb /\ [][NextWb]_vars

InitRels == extractor = "relationships" /\ family = "rels" /\ Init
SpecRels == InitRels /\ [][NextRels]_vars

InitStyXfs == extractor = "styles" /\ family = "sty_xfs" /\ Init
SpecStyXfs == InitStyXfs /\ [][NextSty]_vars

InitStyRegions == extractor = "styles" /\ family = "sty_regions" /\ Init
SpecStyRegions == InitStyRegions /\ [][NextSty]_vars

InitStyRecs == extractor = "styles" /\ family = "sty_recs" /\ Init
SpecStyRecs == InitStyRecs /\ [][NextSty]_vars

InitStyFills == extractor = "styles" /\ family = "sty_fills" /\ Init
SpecStyFills == InitStyFills /\ [][NextSty]_vars

InitStyBorders == extractor = "styles" /\ family = "sty_borders" /\ Init
SpecStyBorders == InitStyBorders /\ [][NextSty]_vars

InitStyNumFmts == extractor = "styles" /\ family = "sty_numfmts" /\ Init
SpecStyNumFmts == InitStyNumFmts /\ [][NextSty]_vars

InitSstEmpty ==
    extractor = "shared_strings" /\ family = "sst_empty" /\ Init
SpecSstEmpty == InitSstEmpty /\ [][NextSst]_vars

InitSst == extractor = "shared_strings" /\ family = "sst" /\ Init
SpecSst == InitSst /\ [][NextSst]_vars

\* Each extractor reading a document with prefixed names.
InitNs ==
    /\ \E p \in { <<"worksheet", "ns_ws">>, <<"styles", "ns_sty">>,
                   <<"workbook", "ns_wb">>, <<"relationships", "ns_rels">> } :
           extractor = p[1] /\ family = p[2]
    /\ Init
SpecNs == InitNs /\ [][NextWs \/ NextSty \/ NextWb \/ NextRels]_vars

\* Each of the five extractors reading any document.
Extractors ==
    {"worksheet", "shared_strings", "styles", "workbook", "relationships"}
InitAny == extractor \in Extractors /\ family = "any" /\ Init
Next == NextWs \/ NextSst \/ NextSty \/ NextWb \/ NextRels
Spec == InitAny /\ [][Next]_vars

\* Each extractor reading a document whose records accumulate.
InitAppend ==
    /\ \E p \in { <<"worksheet", "ws_app">>, <<"shared_strings", "sst_empty">>,
                   <<"styles", "sty_recs">>, <<"styles", "sty_xfs">>,
                   <<"workbook", "wb_app">>, <<"relationships", "rels_app">> } :
           extractor = p[1] /\ family = p[2]
    /\ Init
SpecAppend == InitAppend /\ [][Next]_vars

\* The same, the loop of the running extractor never halting between two
\* iterations: its code is sequential and read_event_into always returns.
SpecLinear == InitAny /\ [][Next]_vars /\ WF_vars(Next)

\* Two invocations running together, each on its own document: the second
\* is called at any moment, then each reads at its own pace.
Invoke(ex) ==
    /\ peer.mode = "none"
    /\ peer' = Called("pair", ex)
    /\ UNCHANGED <<extractor, family, pc, trace, open, ws, sst, sty, wb, rels>>

\* read_event_into returns e to the second invocation.
PeerReads(e) ==
    /\ peer.mode = "pair" /\ peer.pc = "scan"
    /\ OfferedTo(PairFamily(peer.extractor), peer.open, peer.trace, e)
    /\ ~Terminal(e) => Len(peer.trace) < MaxPairEvents
    /\ peer' = PeerRead(peer, e)
    /\ UNCHANGED <<extractor, family, pc, trace, open, ws, sst, sty, wb, rels>>

PairEvents ==
    PairWsEvents \cup PairSstEvents \cup PairStyEvents \cup PairWbEvents
        \cup PairRelsEvents

NextPeer ==
    \/ \E ex \in Extractors : Invoke(ex)
    \/ \E e \in PairEvents : PeerReads(e)

InitPair ==
    /\ extractor \in Extractors
    /\ family = PairFamily(extractor)
    /\ Init
SpecPair == InitPair /\ [][Next \/ NextPeer]_vars

\* Two runs of one extractor over the same events, stepped side by side.
InitTwin ==
    /\ \E p \in { <<"worksheet", "ws_overlap">>, <<"styles", "sty_fmts">>,
                   <<"shared_strings", "any">>, <<"workbook", "ns_wb">>,
                   <<"relationships", "ns_rels">> } :
           extractor = p[1] /\ family = p[2]
    /\ InitLocals
    /\ peer = Called("twin", extractor)
SpecTwin == InitTwin /\ [][Next]_vars

(***************************************************************************)
(* Reading a document: what the event sequence says, independently of any  *)
(* extractor.  Elements are named by the position of their opening event.  *)
(***************************************************************************)
Last(sq) == sq[Len(sq)]
Front(sq) == SubSeq(sq, 1, Len(sq) - 1)

\* The elements of a set of positions, in document order.
RECURSIVE Asc(_)
Asc(S) ==
    IF S = {} THEN <<>>
    ELSE LET m == CHOOSE x \in S : \A y \in S : x <= y
         IN  <<m>> \o Asc(S \ {m})

OpenIdx(tr, n) == {i \in 1..Len(tr) : IsOpen(tr[i], n)}

\* The positions of the elements still open after the events of tr.
RECURSIVE OpenIdxStack(_)
OpenIdxStack(tr) ==
    IF tr = <<>> THEN <<>>
    ELSE LET s == OpenIdxStack(Front(tr))
             e == Last(tr)
         IN  CASE e.type = "Start" -> Append(s, Len(tr))
               [] e.type = "End" /\ s # <<>> -> Front(s)
               [] OTHER -> s

\* The elements enclosing position i, outermost first, and its parent (0: none).
Ancestors(tr, i) == OpenIdxStack(SubSeq(tr, 1, i - 1))
Parent(tr, i) ==
    LET s == Ancestors(tr, i) IN IF s = <<>> THEN 0 ELSE Last(s)
InsideOf(tr, i, n) ==
    \E k \in 1..Len(Ancestors(tr, i)) :
        local_name(tr[Ancestors(tr, i)[k]]) = n

\* The position of the End event closing the element opened at i (0 if none:
\* the element is self-closing or still open).
CloseOf(tr, i) ==
    IF tr[i].type # "Start" THEN 0
    ELSE LET js == {j \in (i + 1)..Len(tr) :
                       /\ tr[j].type = "End"
                       /\ Ancestors(tr, j) # <<>>
                       /\ Last(Ancestors(tr, j)) = i}
         IN  IF js = {} THEN 0 ELSE CHOOSE j \in js : TRUE

\* The value of the attribute written exactly k (no prefix), if any.
AttrValue(e, k) ==
    LET hits == {i \in 1..Len(e.attrs) : e.attrs[i].key = QN(k)}
    IN  IF hits = {} THEN None
        ELSE Some(e.attrs[CHOOSE i \in hits : \A j \in hits : j <= i].value)

\* A worksheet-shaped sequence: balanced, rows not inside rows or cells, and
\* every c a child of a row.
WsShaped(tr) ==
    /\ OpenStack(tr) # Unbalanced
    /\ \A i \in OpenIdx(tr, "row") :
          ~InsideOf(tr, i, "row") /\ ~InsideOf(tr, i, "c")
    /\ \A i \in OpenIdx(tr, "c") :
          Parent(tr, i) # 0 /\ local_name(tr[Parent(tr, i)]) = "row"

Returned == pc = "done"
ReturnedAtEof == pc = "done" /\ Last(trace).type = "Eof"
ReturnedAtErr == pc = "done" /\ Last(trace).type = "Err"

\* The c children of the row element at position i, in document order.
CellsOfRow(tr, i) == Asc({j \in OpenIdx(tr, "c") : Parent(tr, j) = i})

RowNumOf(e) == UnwrapOr(ParseU32(UnwrapOr(AttrValue(e, "r"), "")), 0)
RefOf(e) == UnwrapOr(AttrValue(e, "r"), "")

(***************************************************************************)
(* C1.  parse_worksheet on a well-formed worksheet document: as many Row   *)
(* records as row elements (open/close pairs or self-closing), the n-th    *)
(* Row being the n-th row element, and in each Row one Cell per c child of *)
(* that row, in document order.                                            *)
(***************************************************************************)
C1_RowsMatchRowElements ==
    (ReturnedAtEof /\ WsShaped(trace)) =>
        LET rowIdx == Asc(OpenIdx(trace, "row"))
        IN  /\ Len(ws.rows) = Len(rowIdx)
            /\ \A n \in 1..Len(rowIdx) :
                  LET cs == CellsOfRow(trace, rowIdx[n])
                  IN  /\ ws.rows[n].row_num = RowNumOf(trace[rowIdx[n]])
                      /\ Len(ws.rows[n].cells) = Len(cs)
                      /\ \A k \in 1..Len(cs) :
                            ws.rows[n].cells[k].reference = RefOf(trace[cs[k]])

(***************************************************************************)
(* C2.  parse_worksheet after a tokenizer error: the returned Worksheet    *)
(* holds exactly the records closed before the failure: the rows whose     *)
(* End precedes it (none still open), and every cell whose End precedes it *)
(* (no closed cell lost, no unclosed cell included).                       *)
(***************************************************************************)
\* The elements of local name n that an End event closed, by position.
ClosedIdx(tr, n) == {i \in OpenIdx(tr, n) : CloseOf(tr, i) # 0}

RECURSIVE Flatten(_)
Flatten(ss) == IF ss = <<>> THEN <<>> ELSE Head(ss) \o Flatten(Tail(ss))

ReturnedCellRefs ==
    Flatten([n \in 1..Len(ws.rows) |->
                [k \in 1..Len(ws.rows[n].cells) |->
                    ws.rows[n].cells[k].reference]])

C2_ErrorKeepsClosedRecords ==
    (ReturnedAtErr /\ WsShaped(trace)) =>
        LET rowIdx == Asc(ClosedIdx(trace, "row"))
            cellIdx == Asc(ClosedIdx(trace, "c"))
        IN  /\ [n \in 1..Len(ws.rows) |-> ws.rows[n].row_num]
               = [n \in 1..Len(rowIdx) |-> RowNumOf(trace[rowIdx[n]])]
            /\ ReturnedCellRefs
               = [k \in 1..Len(cellIdx) |-> RefOf(trace[cellIdx[k]])]

(***************************************************************************)
(* C4.  parse_shared_strings: the string pushed for a closed si is the     *)
(* concatenation, in document order, of the Text events inside t elements  *)
(* opened within that si; Text inside the si but outside every t, and Text *)
(* outside any si, contributes nothing.  The n-th string is that of the    *)
(* n-th closed si.                                                         *)
(***************************************************************************)
\* The characters a Text event stands for.
Content(e) == UnwrapOr(Unescape(e.text), "")

RECURSIVE ConcatAt(_, _)
ConcatAt(tr, idx) ==
    IF idx = <<>> THEN "" ELSE Content(tr[Head(idx)]) \o ConcatAt(tr, Tail(idx))

\* The Text events inside a t element opened within the element at i.
TextInT(tr, i) ==
    {k \in (i + 1)..Len(tr) :
        /\ tr[k].type = "Text"
        /\ \E a \in 1..Len(Ancestors(tr, k)) :
              /\ Ancestors(tr, k)[a] = i
              /\ \E b \in (a + 1)..Len(Ancestors(tr, k)) :
                    local_name(tr[Ancestors(tr, k)[b]]) = "t"}

C4_SharedStringIsConcatOfRuns ==
    LET siIdx == Asc(ClosedIdx(trace, "si"))
    IN  /\ Len(sst.strings) = Len(siIdx)
        /\ \A n \in 1..Len(siIdx) :
              sst.strings[n] = ConcatAt(trace, Asc(TextInT(trace, siIdx[n])))

\* An si with two runs, each a t holding text, has been pushed.
C4_Witness ==
    /\ extractor = "shared_strings"
    /\ \E i \in ClosedIdx(trace, "si") :
          /\ Cardinality({j \in ClosedIdx(trace, "t") :
                            /\ Parent(trace, j) = i
                            /\ trace[j + 1].type = "Text"}) = 2
          /\ sst.strings = <<"a&">>

(***************************************************************************)
(* C5.  parse_worksheet column widths: col_widths[k] is defined iff some   *)
(* col element (open or self-closing) whose min, max and width all parsed  *)
(* has min <= k <= max, and is then the width of the last such element; a  *)
(* col with a missing or unparseable min, max or width, or with min > max, *)
(* changes nothing.                                                        *)
(***************************************************************************)
OptU32(o) == IF o = None THEN None ELSE ParseU32(o[1])
OptF64(o) == IF o = None THEN None ELSE ParseF64(o[1])

ColMin(e) == OptU32(AttrValue(e, "min"))
ColMax(e) == OptU32(AttrValue(e, "max"))
ColWidth(e) == OptF64(AttrValue(e, "width"))

\* The col elements all three of whose attributes parsed.
ParsedCols(tr) ==
    {i \in OpenIdx(tr, "col") :
        IsSome(ColMin(tr[i])) /\ IsSome(ColMax(tr[i])) /\ IsSome(ColWidth(tr[i]))}

Covers(e, k) == ColMin(e)[1] <= k /\ k <= ColMax(e)[1]

C5_ColWidthsAreLastCoveringCol ==
    LET cols == ParsedCols(trace)
        ks == DOMAIN ws.col_widths
                \cup UNION {ColMin(trace[i])[1]..ColMax(trace[i])[1] : i \in cols}
    IN  \A k \in ks :
            LET hits == {i \in cols : Covers(trace[i], k)}
            IN  /\ k \in DOMAIN ws.col_widths <=> hits # {}
                /\ hits # {} =>
                      ws.col_widths[k] =
                          ColWidth(trace[CHOOSE i \in hits :
                                            \A j \in hits : j <= i])[1]

\* Two col elements overlap on a column, after a col that did not parse.
C5_Witness ==
    /\ family = "ws_cols"
    /\ \E k \in DOMAIN ws.col_widths :
          \E i, j \in ParsedCols(trace) :
              /\ i < j /\ Covers(trace[i], k) /\ Covers(trace[j], k)
              /\ ColWidth(trace[i]) # ColWidth(trace[j])
    /\ \E i \in OpenIdx(trace, "col") : i \notin ParsedCols(trace)
    /\ \E i \in ParsedCols(trace) : ColMin(trace[i])[1] > ColMax(trace[i])[1]

(***************************************************************************)
(* C6.  parse_worksheet: a row whose r is missing or unparseable still     *)
(* gives a Row (row number 0, height and hidden read normally, all cells   *)
(* kept) and the rest of the scan is unaffected; an unparseable ht leaves  *)
(* height absent, an unparseable s leaves the cell's style index absent.   *)
(* Stated for rows and cells written as open/close pairs (self-closing     *)
(* ones are C1's case): the returned rows are the row elements read with   *)
(* these defaults.                                                         *)
(***************************************************************************)
PairsOnly(tr, n) == \A i \in OpenIdx(tr, n) : tr[i].type = "Start"

RowAsRead(tr, i) ==
    [row_num |-> RowNumOf(tr[i]),
     height |-> OptF64(AttrValue(tr[i], "ht")),
     hidden |-> IsTruthy(UnwrapOr(AttrValue(tr[i], "hidden"), "")),
     cells |-> [k \in 1..Len(CellsOfRow(tr, i)) |->
                  LET c == tr[CellsOfRow(tr, i)[k]]
                  IN  [reference |-> RefOf(c),
                       cell_type |-> AttrValue(c, "t"),
                       style_index |-> OptU32(AttrValue(c, "s"))]]]

RowReturned(row) ==
    [row_num |-> row.row_num, height |-> row.height, hidden |-> row.hidden,
     cells |-> [k \in 1..Len(row.cells) |->
                  [reference |-> row.cells[k].reference,
                   cell_type |-> row.cells[k].cell_type,
                   style_index |-> row.cells[k].style_index]]]

AttrLocalValue(e, l) ==
    LET hits == {i \in 1..Len(e.attrs) : e.attrs[i].key[2] = l}
    IN  IF hits = {} THEN None
        ELSE Some(e.attrs[CHOOSE i \in hits : \A j \in hits : j <= i].value)

NamedSheets(tr) ==
    {i \in OpenIdx(tr, "sheet") : UnwrapOr(AttrValue(tr[i], "name"), "") # ""}

SheetAsRead(e) ==
    [name |-> AttrValue(e, "name")[1],
     sheet_id |-> UnwrapOr(OptU32(AttrValue(e, "sheetId")), 0),
     rid |-> UnwrapOr(AttrLocalValue(e, "id"), ""),
     state |-> AttrValue(e, "state")]

C7_OneSheetInfoPerNamedSheet ==
    LET idx == Asc(NamedSheets(trace))
    IN  wb = [n \in 1..Len(idx) |-> SheetAsRead(trace[idx[n]])]

\* A sheet without relationship id and with an unparseable sheetId was
\* appended, and a sheet without name was not.
C7_Witness ==
    /\ extractor = "workbook"
    /\ \E n \in 1..Len(wb) : wb[n].rid = "" /\ wb[n].sheet_id = 0
    /\ \E i \in OpenIdx(trace, "sheet") : AttrValue(trace[i], "name") = None
    /\ \E i \in OpenIdx(trace, "sheet") : AttrValue(trace[i], "name") = Some("")

(***************************************************************************)
(* C8.  parse_relationships: the output is, in document order, one         *)
(* Relationship per Relationship element (open or self-closing) whose Id   *)
(* is present and non-empty, with its Type, Target and optional            *)
(* TargetMode; an element without Id or with an empty Id is dropped, and   *)
(* elements of any other local name contribute nothing.                    *)
(***************************************************************************)
IdentifiedRels(tr) ==
    {i \in OpenIdx(tr, "Relationship") :
        UnwrapOr(AttrValue(tr[i], "Id"), "") # ""}

RelAsRead(e) ==
    [id |-> AttrValue(e, "Id")[1],
     rel_type |-> UnwrapOr(AttrValue(e, "Type"), ""),
     target |-> UnwrapOr(AttrValue(e, "Target"), ""),
     target_mode |-> AttrValue(e, "TargetMode")]

C8_OneRelationshipPerId ==
    LET idx == Asc(IdentifiedRels(trace))
    IN  rels = [n \in 1..Len(idx) |-> RelAsRead(trace[idx[n]])]

\* A Relationship with TargetMode was appended; one with Type and Target but
\* no Id, and an element of another name with an Id, were not.
C8_Witness ==
    /\ extractor = "relationships"
    /\ \E n \in 1..Len(rels) : rels[n].target_mode = Some("External")
    /\ \E i \in OpenIdx(trace, "Relationship") :
          /\ AttrValue(trace[i], "Id") = None
          /\ AttrValue(trace[i], "Target") # None
    /\ \E i \in OpenIdx(trace, "Override") : AttrValue(trace[i], "Id") # None

(***************************************************************************)
(* C9.  parse_worksheet hyperlinks: a hyperlink element is appended, in    *)
(* document order, iff its ref attribute is present and non-empty; its     *)
(* relationship id is the value of the attribute of local name id,         *)
(* whatever the prefix, absent when there is none; location, display and   *)
(* tooltip are copied when present.                                        *)
(***************************************************************************)
ReferencedLinks(tr) ==
    {i \in OpenIdx(tr, "hyperlink") : UnwrapOr(AttrValue(tr[i], "ref"), "") # ""}

LinkAsRead(e) ==
    [reference |-> AttrValue(e, "ref")[1],
     rid |-> AttrLocalValue(e, "id"),
     location |-> AttrValue(e, "location"),
     display |-> AttrValue(e, "display"),
     tooltip |-> AttrValue(e, "tooltip")]

C9_HyperlinksWithRef ==
    LET idx == Asc(ReferencedLinks(trace))
    IN  ws.hyperlinks = [n \in 1..Len(idx) |-> LinkAsRead(trace[idx[n]])]

\* Hyperlinks with r:id, with a plain id and with no id were appended, and
\* one with an empty ref was not.
C9_Witness ==
    /\ family = "ws_links"
    /\ \E n \in 1..Len(ws.hyperlinks) : ws.hyperlinks[n].rid = Some("rId1")
    /\ \E n \in 1..Len(ws.hyperlinks) : ws.hyperlinks[n].rid = Some("rId4")
    /\ \E n \in 1..Len(ws.hyperlinks) :
          ws.hyperlinks[n].rid = None /\ ws.hyperlinks[n].tooltip = Some("t")
    /\ \E i \in OpenIdx(trace, "hyperlink") :
          AttrValue(trace[i], "ref") = Some("")

(***************************************************************************)
(* C3: no extractor has a failure outcome.                                 *)
(***************************************************************************)
IsSeq(x) == DOMAIN x = 1..Len(x)

\* What the running extractor returns is the record structure of its part.
ResultIsRecordStructure ==
    CASE extractor = "worksheet" ->
            IsSeq(ws.rows) /\ IsSeq(ws.merge_cells) /\ IsSeq(ws.hyperlinks)
      [] extractor = "shared_strings" -> IsSeq(sst.strings)
      [] extractor = "styles" ->
            IsSeq(sty.cell_xfs) /\ IsSeq(sty.fonts) /\ IsSeq(sty.fills)
                /\ IsSeq(sty.borders)
      [] extractor = "workbook" -> IsSeq(wb)
      [] extractor = "relationships" -> IsSeq(rels)

\* C3: whichever of the five extractors runs and whatever events it reads
\* (a tokenizer error, unknown elements and attributes, a close tag that
\* closes nothing), it is either still scanning or has returned: it returns
\* exactly when the tokenizer reports end of input or an error, what it
\* returns is a record structure, and there is no failure outcome.
C3_NoFailureOutcome ==
    /\ pc \in {"scan", "done"}
    /\ pc = "done" <=> (trace # <<>> /\ Terminal(Last(trace)))
    /\ ResultIsRecordStructure

\* The styles extractor returned a partial result at a close tag that
\* closes nothing, after an element it does not know.
C3_Witness ==
    /\ extractor = "styles" /\ pc = "done"
    /\ Last(trace) = UnmatchedEnd(QN("row"))
    /\ \E i \in 1..Len(trace) : IsOpen(trace[i], "ext")
    /\ sty.in_fonts /\ sty.fonts = <<>>

(***************************************************************************)
(* C10: how names with a namespace prefix are matched.                     *)
(***************************************************************************)
Unprefixed(attr) == [attr EXCEPT !.key = QN(attr.key[2])]

\* Event e with the prefix of its element name removed.
ElementUnprefixed(e) == [e EXCEPT !.name = QN(e.name[2])]

\* Event e with every attribute renamed to its local name.
AttrsUnprefixed(e) ==
    [e EXCEPT !.attrs = [i \in 1..Len(e.attrs) |-> Unprefixed(e.attrs[i])]]

\* Event e without its prefixed attributes, except those with local name
\* id, which are renamed to id.
PrefixedAttrsDropped(e) ==
    LET Keep(a) == a.key[1] = "" \/ a.key[2] = "id"
        kept == SelectSeq(e.attrs, Keep)
    IN  [e EXCEPT !.attrs =
            [i \in 1..Len(kept) |->
                IF kept[i].key[2] = "id" THEN Unprefixed(kept[i])
                ELSE kept[i]]]

\* The document with every prefix removed from element and attribute names.
AllUnprefixed(tr) ==
    [i \in 1..Len(tr) |-> AttrsUnprefixed(ElementUnprefixed(tr[i]))]

\* The document with element prefixes removed and prefixed attributes
\* dropped (a prefixed id kept as id).
AsMatched(tr) ==
    [i \in 1..Len(tr) |-> PrefixedAttrsDropped(ElementUnprefixed(tr[i]))]

\* C10 as stated: every extractor reads a document exactly as it reads the
\* same document with all prefixes removed from element and attribute names.
C10_PrefixedAttributeReadAsUnprefixed ==
    Locals = Run(extractor, AllUnprefixed(trace))

\* C10 amended: every extractor matches element names by local name, but
\* attributes by their full written name: it reads a document exactly as it
\* reads the same document with element prefixes removed and every prefixed
\* attribute absent, except that an attribute with local name id is read as
\* id (the relationship id of sheet and hyperlink).
C10_PrefixedAttributeIgnored ==
    Locals = Run(extractor, AsMatched(trace))

\* A returned x:row written with x:r="2" and hidden="1": no row number was
\* read, hidden was.
C10_Witness ==
    /\ extractor = "worksheet" /\ pc = "done"
    /\ \E i \in 1..Len(trace) :
          /\ trace[i].type = "Start" /\ trace[i].name = PQN("x", "row")
          /\ trace[i].attrs[1] = Attr(PQN("x", "r"), "2")
    /\ Len(ws.rows) = 1
    /\ ws.rows[1].row_num = 0 /\ ws.rows[1].hidden
    /\ Len(ws.hyperlinks) = 1 /\ ws.hyperlinks[1].rid = Some("rId1")

(***************************************************************************)
(* C11: invocations are independent.                                       *)
(***************************************************************************)
\* C11: when two invocations (of the same or of different extractors) run
\* together on two documents, whatever the interleaving of their steps and
\* whenever the second is called, the locals of each are those of a run
\* alone from fresh locals over the events it has read itself.
C11_InvocationsIndependent ==
    /\ Locals = Run(extractor, trace)
    /\ peer.mode = "pair" => peer.locals = Run(peer.extractor, peer.trace)

\* Two worksheet invocations both in mid-scan, the first with text in its
\* buffer, the second inside a v with an empty buffer.
C11_Witness ==
    /\ extractor = "worksheet" /\ pc = "scan"
    /\ peer.mode = "pair" /\ peer.extractor = "worksheet" /\ peer.pc = "scan"
    /\ ws.in_value /\ ws.text_content = "x"
    /\ peer.locals.in_value /\ peer.locals.text_content = ""

InsideOpen(n) == \E k \in 1..Len(open) : open[k][2] = n

\* C13: after every event of a well-formed sequence, self-closing tags
\* included, the Row builder is present iff the scan position is inside an
\* open row element, and the Cell builder is present iff it is inside an
\* open c element.
C13_BuildersMatchScopes ==
    (extractor = "worksheet" /\ (trace # <<>> => Last(trace).type # "Err")) =>
        /\ IsSome(ws.current_row) <=> InsideOpen("row")
        /\ IsSome(ws.current_cell) <=> InsideOpen("c")

(***************************************************************************)
(* C14: text outside v, f and is.                                          *)
(***************************************************************************)
\* The scan position is inside an open v, f or is element.
InValueScope == InsideOpen("v") \/ InsideOpen("f") \/ InsideOpen("is")

\* The step is parse_worksheet reading a Text event.
ReadsText ==
    /\ extractor = "worksheet"
    /\ Len(trace') = Len(trace) + 1
    /\ Last(trace').type = "Text"

\* C14: a Text event changes the accumulation buffer only when the scan
\* position is inside an open v, f or is element; at every other position,
\* after a self-closing v, f or is included, it leaves the buffer and all
\* other locals of parse_worksheet unchanged.
C14_TextOnlyInValueScopes ==
    [][ReadsText =>
           /\ ws'.text_content # ws.text_content => InValueScope
           /\ ~InValueScope => ws' = ws]_vars

(***************************************************************************)
(* C18: closes without a builder.                                          *)
(***************************************************************************)
\* The step is parse_worksheet reading the close of an element named n.
ReadsClose(n) ==
    /\ extractor = "worksheet"
    /\ Len(trace') = Len(trace) + 1
    /\ Last(trace').type = "End" /\ local_name(Last(trace')) = n

\* The step leaves rows, the Row builder, merge ranges, hyperlinks and
\* column widths as they are.
RecordsUnchanged ==
    /\ ws'.rows = ws.rows /\ ws'.current_row = ws.current_row
    /\ ws'.merge_cells = ws.merge_cells /\ ws'.hyperlinks = ws.hyperlinks
    /\ ws'.col_widths = ws.col_widths

\* C18: a c close while no Row builder is open discards the cell: the Cell
\* builder is absent afterwards and no row has received it; a c, v, f or is
\* close with no Cell builder open leaves rows, the Row builder, merge
\* ranges, hyperlinks and column widths unchanged.
C18_ClosesWithoutBuilder ==
    [][/\ (ReadsClose("c") /\ ws.current_row = None) =>
              ws'.current_cell = None /\ RecordsUnchanged
       /\ ((ReadsClose("c") \/ ReadsClose("v") \/ ReadsClose("f")
               \/ ReadsClose("is")) /\ ws.current_cell = None) =>
              RecordsUnchanged]_vars

\* A c closed before any row, then a row that was returned without cells.
C18_Witness ==
    /\ family = "ws_vals" /\ Len(trace) >= 4
    /\ IsOpen(trace[1], "c") /\ trace[2] = End(QN("c"))
    /\ trace[3].type = "Start" /\ local_name(trace[3]) = "row"
    /\ trace[4] = End(QN("row"))
    /\ Len(ws.rows) = 1 /\ ws.rows[1].cells = <<>>
    /\ ws.current_cell = None

(***************************************************************************)
(* C15, C16, C17: what v, f and is give the cell.                          *)
(***************************************************************************)
\* The position at which the element opened at i ends: i itself when it is
\* self-closing, the position of its End event, 0 while it is open.
EndPos(tr, i) == IF tr[i].type = "Empty" THEN i ELSE CloseOf(tr, i)

\* The text between positions i and j, in document order.
TextBetween(tr, i, j) ==
    ConcatAt(tr, Asc({k \in (i + 1)..(j - 1) : tr[k].type = "Text"}))

\* C15: for every v element inside an open cell, when the v ends the value
\* of the cell is present and is the concatenation of the Text events
\* between the open and the close of that v; a v with no text gives the
\* empty string, not an absent value.
C15_ValueIsTextOfV ==
    extractor = "worksheet" =>
        \A i \in OpenIdx(trace, "v") :
            (EndPos(trace, i) = Len(trace) /\ InsideOf(trace, i, "c")) =>
                /\ IsSome(ws.current_cell)
                /\ ws.current_cell[1].value =
                       Some(TextBetween(trace, i, Len(trace)))

\* The c element open at the scan position (0: none).
OpenCell(tr) ==
    LET cs == {i \in OpenIdx(tr, "c") : tr[i].type = "Start" /\ CloseOf(tr, i) = 0}
    IN  IF cs = {} THEN 0 ELSE CHOOSE i \in cs : \A j \in cs : j <= i

\* The children named in ns of the element at c that were opened and closed
\* by a pair of tags and pass the test nonempty, if asked.
ClosedChildren(tr, c, ns, nonempty) ==
    {i \in 1..Len(tr) :
        /\ tr[i].type = "Start" /\ local_name(tr[i]) \in ns
        /\ Parent(tr, i) = c /\ CloseOf(tr, i) # 0
        /\ nonempty => TextBetween(tr, i, CloseOf(tr, i)) # ""}

\* The text of the last of the elements at S, if any.
TextOfLast(tr, S) ==
    IF S = {} THEN None
    ELSE LET i == CHOOSE i \in S : \A j \in S : j <= i
         IN  Some(TextBetween(tr, i, CloseOf(tr, i)))

\* C16: inside an open cell, the formula of the cell is the text of the
\* last f closed in the cell whose text is non-empty, absent when there is
\* none (an f close with no text since its open leaves the formula as it
\* was), and the value is the text of the last v or is closed in the cell:
\* formula text is never in the value nor value text in the formula,
\* whichever of f and v comes first.
C16_FormulaIsTextOfF ==
    (extractor = "worksheet" /\ OpenCell(trace) # 0) =>
        /\ IsSome(ws.current_cell)
        /\ ws.current_cell[1].formula =
               TextOfLast(trace,
                   ClosedChildren(trace, OpenCell(trace), {"f"}, TRUE))
        /\ ws.current_cell[1].value =
               TextOfLast(trace,
                   ClosedChildren(trace, OpenCell(trace), {"v", "is"}, FALSE))

\* A cell with formula "a" and value "1", the f before the v.
C16_Witness ==
    /\ family = "ws_cell" /\ Len(trace) = 7
    /\ trace[2] = Start(QN("f"), <<>>) /\ trace[7] = End(QN("v"))
    /\ ws.current_cell = Some([reference |-> "A1", cell_type |-> None,
                                style_index |-> None, value |-> Some("1"),
                                formula |-> Some("a")])

\* C17: at an is close inside an open cell, the value of the cell is the
\* concatenation in document order of all Text events between the open and
\* the close of the is, those inside nested t elements and those around
\* them alike.
C17_InlineStringIsAllText ==
    (/\ extractor = "worksheet" /\ trace # <<>>
     /\ Last(trace) = End(QN("is")) /\ InsideOf(trace, Len(trace), "c")) =>
        /\ IsSome(ws.current_cell)
        /\ ws.current_cell[1].value =
               Some(TextBetween(trace, Last(Ancestors(trace, Len(trace))),
                                Len(trace)))

\* An is closed after text and a t holding text: value "aa".
C17_Witness ==
    /\ family = "ws_cell" /\ Len(trace) = 7
    /\ trace[2] = Start(QN("is"), <<>>) /\ trace[3] = Text("a")
    /\ trace[4] = Start(QN("t"), <<>>) /\ trace[5] = Text("a")
    /\ trace[6] = End(QN("t")) /\ trace[7] = End(QN("is"))
    /\ ws.current_cell[1].value = Some("aa")

(***************************************************************************)
(* C19: cell_xfs has one Style per xf inside cellXfs.                      *)
(***************************************************************************)
\* The xf elements inside the cellXfs element, in document order.
XfsInCellXfs(tr) ==
    Asc({i \in OpenIdx(tr, "xf") : InsideOf(tr, i, "cellXfs")})

\* C19: cell_xfs holds exactly one Style per xf element (open or
\* self-closing) inside the cellXfs element, in document order, there from
\* the open of the xf on; xf elements outside cellXfs contribute nothing,
\* wherever cellXfs stands and whether or not it is self-closing.
C19_OneStylePerXfInCellXfs ==
    extractor = "styles" =>
        /\ Len(sty.cell_xfs) = Len(XfsInCellXfs(trace))
        /\ \A n \in 1..Len(XfsInCellXfs(trace)) :
              n <= Len(sty.cell_xfs) =>
                  sty.cell_xfs[n].font_id =
                      OptU32(AttrValue(trace[XfsInCellXfs(trace)[n]], "fontId"))

(***************************************************************************)
(* C20: what an alignment element changes.                                 *)
(***************************************************************************)
\* The step is parse_styles reading the open of an alignment element.
ReadsAlignment ==
    /\ extractor = "styles"
    /\ Len(trace') = Len(trace) + 1
    /\ IsOpen(Last(trace'), "alignment")

\* Style s with its alignment fields blanked.
WithoutAlignment(s) ==
    [s EXCEPT !.horizontal = None, !.vertical = None, !.wrap_text = FALSE,
              !.text_rotation = None, !.indent = None]

\* The step changes at most the alignment fields of the last Style.
OnlyLastAlignmentChanges ==
    /\ Len(sty'.cell_xfs) = Len(sty.cell_xfs)
    /\ \A n \in 1..Len(sty.cell_xfs) :
          IF n < Len(sty.cell_xfs) THEN sty'.cell_xfs[n] = sty.cell_xfs[n]
          ELSE WithoutAlignment(sty'.cell_xfs[n]) =
                   WithoutAlignment(sty.cell_xfs[n])
    /\ [sty' EXCEPT !.cell_xfs = <<>>] = [sty EXCEPT !.cell_xfs = <<>>]

\* C20: an alignment element inside cellXfs changes only the horizontal,
\* vertical, wrapText, textRotation and indent fields of the last Style of
\* cell_xfs: it appends nothing, changes no earlier entry and no id or
\* apply field, and changes nothing when cell_xfs is empty; an alignment
\* element outside cellXfs changes nothing.
C20_AlignmentPatchesLastStyle ==
    [][ReadsAlignment =>
           /\ OnlyLastAlignmentChanges
           /\ ~InsideOpen("cellXfs") => sty' = sty]_vars

(***************************************************************************)
(* C21: the region flags of parse_styles.                                  *)
(***************************************************************************)
\* The region flag of region r.
RegionFlag(r) ==
    CASE r = "cellXfs" -> sty.in_cell_xfs
      [] r = "fonts" -> sty.in_fonts
      [] r = "fills" -> sty.in_fills
      [] r = "borders" -> sty.in_borders
      [] r = "numFmts" -> sty.in_num_fmts

\* C21: after every event of a well-formed styles sequence, each of the
\* five region flags is true iff the scan position is inside the
\* corresponding element; in particular a region element written as a
\* self-closing tag leaves its flag false for everything that follows it.
C21_RegionFlagsMatchScopes ==
    extractor = "styles" =>
        \A r \in Regions : RegionFlag(r) <=> InsideOpen(r)

(***************************************************************************)
(* C22: fonts, fills and borders have one record per element.              *)
(***************************************************************************)
\* The elements named n inside the region element r that have ended, in
\* document order.
EndedIn(tr, n, r) ==
    Asc({i \in OpenIdx(tr, n) : InsideOf(tr, i, r) /\ EndPos(tr, i) # 0})

\* The font element at i has a b child.
HasBold(tr, i) == \E k \in OpenIdx(tr, "b") : Parent(tr, k) = i

\* C22: fonts, fills and borders each hold exactly one record per font,
\* fill, border element (open/close pair or self-closing) that has ended
\* inside fonts, fills, borders respectively, in document order (the n-th
\* Font is the one of the n-th font element); font, fill and border
\* elements outside those regions add no record.
C22_OneRecordPerElement ==
    extractor = "styles" =>
        /\ Len(sty.fonts) = Len(EndedIn(trace, "font", "fonts"))
        /\ Len(sty.fills) = Len(EndedIn(trace, "fill", "fills"))
        /\ Len(sty.borders) = Len(EndedIn(trace, "border", "borders"))
        /\ \A n \in 1..Len(sty.fonts) :
              n <= Len(EndedIn(trace, "font", "fonts")) =>
                  sty.fonts[n].bold =
                      HasBold(trace, EndedIn(trace, "font", "fonts")[n])

(***************************************************************************)
(* C23: the colors of a Fill.                                              *)
(***************************************************************************)
\* The rgb of the last element named n, with an rgb attribute, that stands
\* inside a patternFill element of the fill element at i.
FillColor(tr, i, n) ==
    LET hits == {k \in OpenIdx(tr, n) :
                    /\ IsSome(AttrValue(tr[k], "rgb"))
                    /\ \E a \in 1..Len(Ancestors(tr, k)) :
                          /\ Ancestors(tr, k)[a] = i
                          /\ \E b \in (a + 1)..Len(Ancestors(tr, k)) :
                                local_name(tr[Ancestors(tr, k)[b]])
                                    = "patternFill"}
    IN  IF hits = {} THEN None
        ELSE AttrValue(tr[CHOOSE k \in hits : \A j \in hits : j <= k], "rgb")

\* The fill elements closed inside fills, in document order.
FillsClosed(tr) ==
    Asc({i \in OpenIdx(tr, "fill") :
            InsideOf(tr, i, "fills") /\ CloseOf(tr, i) # 0})

\* C23: the foreground (background) color of every Fill is present iff an
\* fgColor (bgColor) element with an rgb attribute stands inside a
\* patternFill element of that fill, and then is that rgb; fgColor and
\* bgColor elements outside any open patternFill (after a self-closing
\* patternFill, inside gradientFill, outside a fill) set nothing; and the
\* pattern-fill flag is false after every fill close.
C23_FillColorsFromPatternFill ==
    extractor = "styles" =>
        /\ Len(sty.fills) = Len(FillsClosed(trace))
        /\ \A n \in 1..Len(sty.fills) :
              n <= Len(FillsClosed(trace)) =>
                  /\ sty.fills[n].fg_color =
                         FillColor(trace, FillsClosed(trace)[n], "fgColor")
                  /\ sty.fills[n].bg_color =
                         FillColor(trace, FillsClosed(trace)[n], "bgColor")
        /\ (trace # <<>> /\ Last(trace) = End(QN("fill")))
               => ~sty.in_pattern_fill

(***************************************************************************)
(* C24: the side colors of a Border.                                       *)
(***************************************************************************)
\* The rgb of the last color element, with an rgb attribute, nested inside
\* the side element named x of the border element at i.
SideColor(tr, i, x) ==
    LET hits == {k \in OpenIdx(tr, "color") :
                    /\ IsSome(AttrValue(tr[k], "rgb"))
                    /\ \E a \in 1..Len(Ancestors(tr, k)) :
                          /\ Ancestors(tr, k)[a] = i
                          /\ \E b \in (a + 1)..Len(Ancestors(tr, k)) :
                                local_name(tr[Ancestors(tr, k)[b]]) = x}
    IN  IF hits = {} THEN None
        ELSE AttrValue(tr[CHOOSE k \in hits : \A j \in hits : j <= k], "rgb")

\* The side colors of Border b are those written in the border element at i.
SideColorsOf(b, tr, i) ==
    /\ b.left_color = SideColor(tr, i, "left")
    /\ b.right_color = SideColor(tr, i, "right")
    /\ b.top_color = SideColor(tr, i, "top")
    /\ b.bottom_color = SideColor(tr, i, "bottom")

\* The border elements closed inside borders, in document order, and the
\* border elements still open.
BordersClosed(tr) ==
    Asc({i \in OpenIdx(tr, "border") :
            InsideOf(tr, i, "borders") /\ CloseOf(tr, i) # 0})
BordersOpen(tr) ==
    {i \in OpenIdx(tr, "border") :
        \E k \in 1..Len(OpenIdxStack(tr)) : OpenIdxStack(tr)[k] = i}

\* C24: for every Border, recorded or being built, and every side X, the
\* color of X is present iff a color element with an rgb attribute is
\* nested inside that border's X element, and then is that rgb; a color
\* element not nested inside X never sets X's color; and the recorded side
\* name is absent whenever the scan position is outside every side element.
C24_SideColorsFromOwnSide ==
    extractor = "styles" =>
        /\ Len(sty.borders) = Len(BordersClosed(trace))
        /\ \A n \in 1..Len(sty.borders) :
              n <= Len(BordersClosed(trace)) =>
                  SideColorsOf(sty.borders[n], trace, BordersClosed(trace)[n])
        /\ \A i \in BordersOpen(trace) :
              /\ IsSome(sty.current_border)
              /\ SideColorsOf(sty.current_border[1], trace, i)
        /\ (\A x \in Sides : ~InsideOpen(x)) => sty.current_border_side = None

(***************************************************************************)
(* C25: the number-format table.                                           *)
(***************************************************************************)
\* The numFmt elements inside numFmts whose numFmtId is the number id and
\* that have a formatCode.
NumFmtsFor(tr, id) ==
    {k \in OpenIdx(tr, "numFmt") :
        /\ InsideOf(tr, k, "numFmts")
        /\ OptU32(AttrValue(tr[k], "numFmtId")) = Some(id)
        /\ IsSome(AttrValue(tr[k], "formatCode"))}

\* The numbers written as the numFmtId of some numFmt element.
NumFmtIds(tr) ==
    {OptU32(AttrValue(tr[k], "numFmtId"))[1] :
        k \in {j \in OpenIdx(tr, "numFmt") :
                  IsSome(OptU32(AttrValue(tr[j], "numFmtId")))}}

\* C25: after the scan, num_fmts has an entry for id iff some numFmt element
\* inside the numFmts element has a numFmtId that parses to id and a
\* formatCode, and the entry is the formatCode of the last such element; a
\* numFmt without one of the two attributes, with an id that is no number,
\* or outside numFmts, leaves the table unchanged.
C25_NumFmtsFromNumFmtsRegion ==
    (extractor = "styles" /\ Returned) =>
        /\ DOMAIN sty.num_fmts =
               {id \in NumFmtIds(trace) : NumFmtsFor(trace, id) # {}}
        /\ \A id \in DOMAIN sty.num_fmts :
              NumFmtsFor(trace, id) # {} =>
                  Some(sty.num_fmts[id]) =
                      AttrValue(trace[CHOOSE k \in NumFmtsFor(trace, id) :
                                        \A j \in NumFmtsFor(trace, id) : j <= k],
                                "formatCode")

(***************************************************************************)
(* C26: what parse_styles returns when the tokenizer fails.                *)
(***************************************************************************)
\* The scan ended on a tokenizer error.
FailedScan == Returned /\ trace # <<>> /\ Last(trace).type = "Err"

\* C26: when the event stream fails after some prefix, the returned cell
\* formats, fonts, fills and borders are exactly the records of the xf,
\* font, fill and border elements (inside their regions) that were fully
\* closed before the failure: one record per such element, and none for an
\* element still open at the failure.
C26_OnlyClosedRecordsOnFailure ==
    (extractor = "styles" /\ FailedScan) =>
        /\ Len(sty.cell_xfs) = Len(EndedIn(trace, "xf", "cellXfs"))
        /\ Len(sty.fonts) = Len(EndedIn(trace, "font", "fonts"))
        /\ Len(sty.fills) = Len(EndedIn(trace, "fill", "fills"))
        /\ Len(sty.borders) = Len(EndedIn(trace, "border", "borders"))

(***************************************************************************)
(* C27: every extractor is a terminating linear scan.                      *)
(***************************************************************************)
\* One iteration: the extractor had not returned; it consumes exactly one
\* event, the next one, leaving the events before it as they are; its
\* locals after the iteration are a function of its locals before and of
\* that event alone; and it returns iff the event is end-of-input or a
\* tokenizer error.
LinearStep ==
    /\ pc = "scan"
    /\ Len(trace') = Len(trace) + 1 /\ Front(trace') = trace
    /\ \A i \in 1..Len(trace) : ~Terminal(trace[i])
    /\ Locals' = Step(extractor, Locals, Last(trace'))
    /\ pc' = "done" <=> Terminal(Last(trace'))

\* C27: on any finite event sequence each loop iteration of each extractor
\* consumes exactly one event, no event is revisited, and the extractor
\* eventually returns, at the first end-of-input or tokenizer-error event,
\* without processing any event after it.
C27_TerminatingLinearScan ==
    /\ [][LinearStep]_vars
    /\ <>Returned

\* An extractor returned at end-of-input after three iterations that
\* changed its locals.
C27_Witness ==
    /\ Returned /\ Len(trace) = 3 /\ Last(trace).type = "Eof"
    /\ Locals # InitialLocals(extractor)

(***************************************************************************)
(* C28: shared strings stay aligned with the si elements.                  *)
(***************************************************************************)
\* The si elements that have ended, self-closing ones included, in
\* document order.
SiEnded(tr) == Asc({i \in OpenIdx(tr, "si") : EndPos(tr, i) # 0})

\* C28: the output has one string per si element, self-closing si elements
\* included (each giving the empty string), the n-th string being the text
\* of the n-th si element; a self-closing t contributes no text and does
\* not change the text of later t elements.
C28_OneStringPerSi ==
    extractor = "shared_strings" =>
        /\ Len(sst.strings) = Len(SiEnded(trace))
        /\ \A n \in 1..Len(sst.strings) :
              n <= Len(SiEnded(trace)) =>
                  sst.strings[n] =
                      ConcatAt(trace, Asc(TextInT(trace, SiEnded(trace)[n])))

(***************************************************************************)
(* C29: the outputs are append-only.                                       *)
(***************************************************************************)
\* Sequence a is a prefix of sequence b.
IsPrefix(a, b) == Len(a) <= Len(b) /\ SubSeq(b, 1, Len(a)) = a

\* One iteration appends to the output sequences or leaves them alone; in
\* cell_xfs it may besides change the last entry, and only that one.
AppendOnlyStep ==
    /\ IsPrefix(ws.rows, ws'.rows)
    /\ IsPrefix(ws.merge_cells, ws'.merge_cells)
    /\ IsPrefix(ws.hyperlinks, ws'.hyperlinks)
    /\ IsPrefix(sst.strings, sst'.strings)
    /\ IsPrefix(wb, wb')
    /\ IsPrefix(rels, rels')
    /\ IsPrefix(sty.fonts, sty'.fonts)
    /\ IsPrefix(sty.fills, sty'.fills)
    /\ IsPrefix(sty.borders, sty'.borders)
    /\ Len(sty.cell_xfs) <= Len(sty'.cell_xfs)
    /\ \A n \in 1..(Len(sty.cell_xfs) - 1) :
          sty'.cell_xfs[n] = sty.cell_xfs[n]

\* C29: once a Row, a shared string, a SheetInfo, a Relationship, a merge
\* range, a hyperlink, a Font, a Fill or a Border has been appended, no later
\* event modifies, reorders or removes it, so the output after a prefix of
\* the events is a prefix of the output after all of them; of cell_xfs only
\* the last entry may change.
C29_OutputsAppendOnly == [][AppendOnlyStep]_vars

\* After a first record was appended the scan went on and appended a
\* second one: two rows, the first with a cell.
C29_Witness ==
    /\ extractor = "worksheet"
    /\ Len(ws.rows) = 2 /\ Len(ws.rows[1].cells) = 1

====
